---- MODULE Spec2Model ----
(***************************************************************************)
(* RS-232 to PDU gateway: the priority dispatcher (QueueRunner /           *)
(* DeviceCmdRunner), the submission paths of the serial supervisor         *)
(* (power_change_enqueue, healthcheck_enqueue, outlet_manual_toggle,       *)
(* Powerchange), the retrying request loops, and the serial framing.       *)
(*                                                                         *)
(* The event loop is single-threaded and cooperative.  `ready` is the      *)
(* loop's FIFO of runnable tasks; callbacks of the outside world (serial   *)
(* readiness, scheduler jobs, timers, SNMP replies) are separate actions.  *)
(***************************************************************************)
EXTENDS Integers, Sequences, FiniteSets, TLC

VARIABLES
    devs,          \* configured device names (self.devices keys)
    cyImpl,        \* which synthesized-cycle code is wired in
    subs,          \* every command created so far, indexed by its id
    cyLog,         \* the (device, outlet) of each synthesized cycle started
    ready,         \* event loop FIFO of runnable tasks
    prio_counter,  \* QueueRunner.prio_counter
    queue,         \* QueueRunner.queue: set of [prio, id]
    consumer,      \* position of the dequeue() task
    inflight,      \* SNMP operations issued and not yet answered
    sleeping,      \* outlet_manual_toggle tasks inside asyncio.sleep
    subHist,       \* ids in the order enqueue() stored them
    popLog,        \* one entry per queue.get(): the id and the queue before
    issued,        \* SNMP operations in the order they were issued
    delayLog,      \* the sleeps of the synthesized cycles: started, ended
    hcImpl,        \* which healthcheck code is wired in
    hcLog,         \* one entry per healthcheck firing: the ids it submitted
    impl,          \* which retry loop is running
    max_attempts,  \* its max_attempts
    attempt,       \* iterations of the loop completed
    rpc,           \* where the loop is: new, awaiting, sleep, returned
    ncalls,        \* calls made to the transport
    replies,       \* what the transport answered, one entry per finished call
    ret,           \* the value the loop returned
    remaining,     \* ticks left in the running asyncio.timeout scope
    records,       \* the handlers the loop has called, in order
    reader,        \* which serial reader callback is installed
    stream,        \* the characters the serial peer sends
    delivered,     \* how many of them have been read so far
    nreads,        \* read cycles so far
    read_buffer,   \* the reader's buffer, as positions in stream
    parseLog,      \* every text given to the parser: cycle, positions, result
    submitted,     \* every command the reader submitted, in order
    sup,           \* which serial supervisor is running
    dev_present,   \* the serial device node exists and can be opened
    ser,           \* the supervisor: handle, reader, reconnect job, watch
    serLog,        \* the latest events at the serial port
    parser_cls,    \* which ParserKvmSequence is under test
    segment,       \* the text handed to parse
    outcome,       \* what parse returned or raised
    snmp_cls,      \* which SNMP class talks to the agent
    snmp_conf,     \* the device's snmp section of the configuration
    session,       \* the authentication data built by the constructor
    sent           \* the requests handed to the SNMP engine, in order

dispVars == <<devs, cyImpl, subs, cyLog, ready, prio_counter, queue,
              consumer, inflight, sleeping, subHist, popLog, issued, delayLog,
              hcImpl, hcLog>>

retryVars == <<impl, max_attempts, attempt, rpc, ncalls, replies, ret,
               remaining, records>>

readVars == <<reader, stream, delivered, nreads, read_buffer, parseLog, submitted>>

serVars == <<sup, dev_present, ser, serLog>>

parseVars == <<parser_cls, segment, outcome>>

snmpVars == <<snmp_cls, snmp_conf, session, sent>>

vars == <<dispVars, retryVars, readVars, serVars, parseVars, snmpVars>>

notDispVars == <<retryVars, readVars, serVars, parseVars, snmpVars>>

notRetryVars == <<dispVars, readVars, serVars, parseVars, snmpVars>>

notReadVars == <<dispVars, retryVars, serVars, parseVars, snmpVars>>

notSerVars == <<dispVars, retryVars, readVars, parseVars, snmpVars>>

notParseVars == <<dispVars, retryVars, readVars, serVars, snmpVars>>

notSnmpVars == <<dispVars, retryVars, readVars, serVars, parseVars>>

(***************************************************************************)
(* Each specification below runs one part of the program; the variables    *)
(* of the other parts stay at these values.                                *)
(***************************************************************************)
IdleDisp ==
    /\ devs = {} /\ cyImpl = "" /\ subs = <<>> /\ cyLog = <<>>
    /\ ready = <<>> /\ prio_counter = 0 /\ queue = {}
    /\ consumer = [pc |-> "", cur |-> 0, stage |-> ""]
    /\ inflight = {} /\ sleeping = {}
    /\ subHist = <<>> /\ popLog = <<>> /\ issued = <<>> /\ delayLog = <<>>
    /\ hcImpl = "" /\ hcLog = <<>>

IdleRetry ==
    /\ impl = "" /\ max_attempts = 0 /\ attempt = 0 /\ rpc = ""
    /\ ncalls = 0 /\ replies = <<>> /\ ret = ""
    /\ remaining = 0 /\ records = <<>>

IdleRead ==
    /\ reader = "" /\ stream = <<>> /\ delivered = 0 /\ nreads = 0
    /\ read_buffer = <<>> /\ parseLog = <<>> /\ submitted = <<>>

IdleSer ==
    /\ sup = "" /\ dev_present = FALSE /\ serLog = <<>>
    /\ ser = [conn |-> "", live |-> FALSE, reader |-> FALSE, job |-> FALSE,
              file_wd |-> "", joined |-> FALSE]

NoOutcome ==
    [ok |-> FALSE, exc |-> "none", cmd |-> "", bank |-> 0, port |-> 0,
     pos |-> 0, from |-> -1]

IdleParse == parser_cls = "" /\ segment = <<>> /\ outcome = NoOutcome

IdleSnmp == snmp_cls = "" /\ snmp_conf = <<>> /\ session = <<>> /\ sent = <<>>

(***************************************************************************)
(* Bounds of the model.                                                    *)
(***************************************************************************)
MaxCmds == 4

MaxAttempts == 5

\* the timeout of one attempt, in ticks of the clock
TimeoutTicks == 2

MaxSegs == 3

MaxReads == 2

\* how many of the latest serial events are kept
MaxEvents == 4

(***************************************************************************)
(* Configuration: two devices, the first with a native cy value, the       *)
(* second without one; both transports know outlets 001 and 002.           *)
(***************************************************************************)
devices ==
    [d \in {"001", "002"} |->
        IF d = "001" THEN [on |-> 1, of |-> 2, cy |-> 3]
                     ELSE [on |-> 1, of |-> 2]]

power_states(d) == devices[d]

oids == {"001", "002"}

Outlets == {"001"}

\* verbs of the direct power commands the model feeds in
PowerVerbs == {"of"}

Configs == {{"002"}, {"001", "002"}}

DeviceOrder == <<"001", "002">>

RECURSIVE SelectSeq2(_, _)
SelectSeq2(s, S) ==
    IF s = <<>> THEN <<>>
    ELSE IF Head(s) \in S THEN <<Head(s)>> \o SelectSeq2(Tail(s), S)
         ELSE SelectSeq2(Tail(s), S)

(***************************************************************************)
(* QueueRunner.enqueue: the key stored with the item.                      *)
(***************************************************************************)
enqueue_priority_unsigned(counter, high_prio) == counter

\* one key for each class of priority
enqueue_priority_classes(counter, high_prio) == IF high_prio THEN -1 ELSE 1

enqueue_priority(counter, high_prio) ==
    IF high_prio THEN -counter ELSE counter

QueueMax(q) == CHOOSE x \in q : \A y \in q : x.prio >= y.prio

\* asyncio.PriorityQueue.get: the entry with the least key
QueueMin(q) == CHOOSE x \in q : \A y \in q : x.prio <= y.prio

\* dequeue(): `await func()` blocks the loop of the consumer until func ends
dequeue_fire_and_forget == FALSE

dequeue_awaits == TRUE

\* the two states a synthesized cycle sends, in order
toggle_states_swapped == <<"on", "of">>

\* outlet_manual_toggle: 'of', sleep, 'on'
toggle_states == <<"of", "on">>

cy_states_swapped == <<"on", "of">>

\* Powerchange.__cy: send('of'), sleep, send('on')
cy_states == <<"of", "on">>

(***************************************************************************)
(* Commands.                                                               *)
(***************************************************************************)
Cmd(kind, high, d, o, verb, tid) ==
    [kind |-> kind, high |-> high, dev |-> d, outlet |-> o,
     verb |-> verb, tid |-> tid]

EnqueueTask(id) == [t |-> "enqueue", id |-> id, dev |-> "", outlet |-> "", tid |-> 0]
ToggleTask(t, d, o, tid) == [t |-> t, id |-> 0, dev |-> d, outlet |-> o, tid |-> tid]
ConsumerTask == [t |-> "consumer", id |-> 0, dev |-> "", outlet |-> "", tid |-> 0]

Op(id, kind, d, o, verb, tid) ==
    [id |-> id, kind |-> kind, dev |-> d, outlet |-> o, verb |-> verb, tid |-> tid]

\* does running the action of command c raise (unknown outlet or state)?
SendRaises(c, verb) ==
    \/ c.outlet \notin oids
    \/ c.kind # "get" /\ verb \notin DOMAIN power_states(c.dev)

InitDisp ==
    /\ devs \in Configs
    /\ cyImpl \in {"outlet_manual_toggle", "Powerchange"}
    /\ subs = <<>>
    /\ cyLog = <<>>
    /\ ready = <<ConsumerTask>>
    /\ prio_counter = 0
    /\ queue = {}
    /\ consumer = [pc |-> "ready", cur |-> 0, stage |-> ""]
    /\ inflight = {}
    /\ sleeping = {}
    /\ subHist = <<>>
    /\ popLog = <<>>
    /\ issued = <<>>
    /\ delayLog = <<>>
    /\ hcLog = <<>>

(***************************************************************************)
(* Commands created so far plus those the running toggle tasks will still  *)
(* create; the model stops accepting input at MaxCmds of them.             *)
(***************************************************************************)
RECURSIVE Owed(_)
Owed(rd) ==
    IF rd = <<>> THEN 0
    ELSE (IF Head(rd).t = "toggle" THEN 2
          ELSE IF Head(rd).t = "toggle_wake" THEN 1 ELSE 0) + Owed(Tail(rd))

Committed == Len(subs) + Owed(ready) + Cardinality(sleeping)

(***************************************************************************)
(* asyncio.sleep(delay) of the synthesized cycle tid: the log keeps how    *)
(* many operations had been issued when the sleep started and when its     *)
(* timer fired (-1 while it runs).                                         *)
(***************************************************************************)
SleepStarts(tid) ==
    Append(delayLog, [tid |-> tid, from |-> Len(issued), to |-> -1])

SleepEnds(tid) ==
    [k \in 1..Len(delayLog) |->
        IF delayLog[k].tid = tid /\ delayLog[k].to = -1
           THEN [delayLog[k] EXCEPT !.to = Len(issued)]
           ELSE delayLog[k]]

(***************************************************************************)
(* Rs232ToPdu.healthcheck_enqueue: one high-priority GET of the first      *)
(* outlet per device, in the order of the devices dictionary.              *)
(***************************************************************************)
RECURSIVE HealthCmds(_)
HealthCmds(ds) ==
    IF ds = <<>> THEN <<>>
    ELSE <<Cmd("get", TRUE, Head(ds), "001", "get", 0)>> \o HealthCmds(Tail(ds))

healthcheck_enqueue ==
    LET new == HealthCmds(SelectSeq2(DeviceOrder, devs)) IN
    /\ hcImpl = "healthcheck_enqueue"
    /\ Committed + Len(new) <= MaxCmds
    /\ subs' = subs \o new
    /\ ready' = ready \o [i \in 1..Len(new) |-> EnqueueTask(Len(subs) + i)]
    /\ hcLog' = Append(hcLog, (Len(subs) + 1)..(Len(subs) + Len(new)))
    /\ UNCHANGED <<devs, cyImpl, hcImpl, cyLog, prio_counter, queue, consumer,
                   inflight, sleeping, subHist, popLog, issued, delayLog>>
    /\ UNCHANGED notDispVars

(***************************************************************************)
(* The Healthcheck objects of __main__: the loop that creates one per      *)
(* device ends with `break` after the first.  Each object submits its GET  *)
(* when it is made and again `frequency` after the GET has returned        *)
(* (call_later in __send).  The queue's enqueue is not among the sources;  *)
(* the GET is taken to be stored at high priority.                         *)
(***************************************************************************)
HcImpls == {"healthcheck_enqueue", "Healthcheck"}

main_healthchecks ==
    LET configured == SelectSeq2(DeviceOrder, devs)
    IN  IF configured = <<>> THEN {} ELSE {Head(configured)}

\* the GETs of device d that have not returned yet
HealthPending(d) ==
    {id \in 1..Len(subs) :
        /\ subs[id].kind = "get" /\ subs[id].dev = d
        /\ ~\E i \in 1..Len(issued) : issued[i].id = id /\ issued[i] \notin inflight}

Healthcheck_timer ==
    \E d \in main_healthchecks :
        /\ hcImpl = "Healthcheck"
        /\ HealthPending(d) = {}
        /\ Committed < MaxCmds
        /\ subs' = Append(subs, Cmd("get", TRUE, d, "001", "get", 0))
        /\ ready' = Append(ready, EnqueueTask(Len(subs) + 1))
        /\ hcLog' = Append(hcLog, {Len(subs) + 1})
        /\ UNCHANGED <<devs, cyImpl, hcImpl, cyLog, prio_counter, queue, consumer,
                       inflight, sleeping, subHist, popLog, issued, delayLog>>
        /\ UNCHANGED notDispVars

(***************************************************************************)
(* Rs232ToPdu.power_change_enqueue: creates the command and a task that    *)
(* will run QueueRunner.enqueue(send, False).  sb and rd are the commands  *)
(* and the ready FIFO at the moment of the call.                           *)
(***************************************************************************)
power_change_enqueue(sb, rd, d, o, s, tid) ==
    [subs |-> Append(sb, Cmd("set", FALSE, d, o, s, tid)),
     ready |-> Append(rd, EnqueueTask(Len(sb) + 1))]

\* parsed_tokens_consume, else branch: on, of, or a cy the device knows
PowerChange ==
    \E d \in devs, o \in Outlets, s \in PowerVerbs :
        /\ ~(s = "cy" /\ s \notin DOMAIN power_states(d))
        /\ Committed < MaxCmds
        /\ LET r == power_change_enqueue(subs, ready, d, o, s, 0) IN
               subs' = r.subs /\ ready' = r.ready
        /\ UNCHANGED <<devs, cyImpl, hcImpl, hcLog, cyLog, prio_counter, queue, consumer,
                       inflight, sleeping, subHist, popLog, issued, delayLog>>
        /\ UNCHANGED notDispVars

(***************************************************************************)
(* A cy for a device without a cy value.  parsed_tokens_consume creates    *)
(* the outlet_manual_toggle task; Powerchange.__init__ enqueues one        *)
(* action (__cy) that does both halves itself.                             *)
(***************************************************************************)
CyCommand ==
    \E d \in devs, o \in Outlets :
        /\ "cy" \notin DOMAIN power_states(d)
        /\ Committed + 2 <= MaxCmds
        /\ cyLog' = Append(cyLog, [dev |-> d, outlet |-> o])
        /\ IF cyImpl = "outlet_manual_toggle"
              THEN /\ ready' = Append(ready, ToggleTask("toggle", d, o, Len(cyLog) + 1))
                   /\ subs' = subs
              ELSE /\ subs' = Append(subs, Cmd("cy", FALSE, d, o, "cy", Len(cyLog) + 1))
                   /\ ready' = Append(ready, EnqueueTask(Len(subs) + 1))
        /\ UNCHANGED <<devs, cyImpl, hcImpl, hcLog, prio_counter, queue, consumer,
                       inflight, sleeping, subHist, popLog, issued, delayLog>>
        /\ UNCHANGED notDispVars

\* outlet_manual_toggle, first half: submit of, then asyncio.sleep(toggle_delay)
outlet_manual_toggle_of ==
    /\ ready # <<>> /\ Head(ready).t = "toggle"
    /\ LET tk == Head(ready)
           r == power_change_enqueue(subs, Tail(ready), tk.dev, tk.outlet, toggle_states[1], tk.tid)
       IN  /\ subs' = r.subs
           /\ ready' = r.ready
           /\ sleeping' = sleeping \cup {ToggleTask("toggle_wake", tk.dev, tk.outlet, tk.tid)}
           /\ delayLog' = SleepStarts(tk.tid)
    /\ UNCHANGED <<devs, cyImpl, hcImpl, hcLog, cyLog, prio_counter, queue, consumer,
                   inflight, subHist, popLog, issued>>
    /\ UNCHANGED notDispVars

\* the timer of asyncio.sleep(toggle_delay) fires
ToggleTimer ==
    \E tk \in sleeping :
        /\ sleeping' = sleeping \ {tk}
        /\ ready' = Append(ready, tk)
        /\ delayLog' = SleepEnds(tk.tid)
        /\ UNCHANGED <<devs, cyImpl, hcImpl, hcLog, subs, cyLog, prio_counter, queue,
                       consumer, inflight, subHist, popLog, issued>>
        /\ UNCHANGED notDispVars

\* outlet_manual_toggle, second half: submit on
outlet_manual_toggle_on ==
    /\ ready # <<>> /\ Head(ready).t = "toggle_wake"
    /\ LET tk == Head(ready)
           r == power_change_enqueue(subs, Tail(ready), tk.dev, tk.outlet, toggle_states[2], tk.tid)
       IN  /\ subs' = r.subs
           /\ ready' = r.ready
    /\ UNCHANGED <<devs, cyImpl, hcImpl, hcLog, cyLog, prio_counter, queue, consumer,
                   inflight, sleeping, subHist, popLog, issued, delayLog>>
    /\ UNCHANGED notDispVars

(***************************************************************************)
(* QueueRunner.enqueue, run as a task: take the key from prio_counter,     *)
(* bump the counter, put the item; a put wakes a consumer blocked in get.  *)
(***************************************************************************)
enqueue ==
    /\ ready # <<>> /\ Head(ready).t = "enqueue"
    /\ LET id == Head(ready).id
           priority == enqueue_priority(prio_counter, subs[id].high)
           wake == consumer.pc = "getting"
       IN  /\ prio_counter' = prio_counter + 1
           /\ queue' = queue \cup {[prio |-> priority, id |-> id]}
           /\ subHist' = Append(subHist, id)
           /\ consumer' = IF wake THEN [consumer EXCEPT !.pc = "ready"] ELSE consumer
           /\ ready' = IF wake THEN Append(Tail(ready), ConsumerTask) ELSE Tail(ready)
    /\ UNCHANGED <<devs, cyImpl, hcImpl, hcLog, subs, cyLog, inflight, sleeping, popLog, issued, delayLog>>
    /\ UNCHANGED notDispVars

(***************************************************************************)
(* QueueRunner.dequeue: the consumer task runs until it next suspends.     *)
(* It first finishes what it was resumed for, then loops: get() suspends   *)
(* on an empty queue, otherwise the least entry is taken and its action    *)
(* is called.  An action that raises ends the task.                        *)
(***************************************************************************)
\* the consumer after starting the SNMP operation of command id
AfterIssue(id, stage) ==
    [pc |-> IF dequeue_awaits THEN "io" ELSE "ready", cur |-> id, stage |-> stage]

ConsumerRequeue(rd, c) == IF c.pc = "ready" THEN Append(rd, ConsumerTask) ELSE rd

\* Powerchange.__cy after its sleep: the second send
dequeue_cy_on ==
    /\ ready # <<>> /\ Head(ready).t = "consumer"
    /\ consumer.pc = "ready" /\ consumer.stage = "wake"
    /\ LET c == subs[consumer.cur]
           op == Op(consumer.cur, "set", c.dev, c.outlet, cy_states[2], c.tid)
           nc == AfterIssue(consumer.cur, "second")
       IN  /\ issued' = Append(issued, op)
           /\ inflight' = inflight \cup {op}
           /\ consumer' = nc
           /\ ready' = ConsumerRequeue(Tail(ready), nc)
    /\ UNCHANGED <<devs, cyImpl, hcImpl, hcLog, subs, cyLog, prio_counter, queue, sleeping,
                   subHist, popLog, delayLog>>
    /\ UNCHANGED notDispVars

\* Powerchange.__cy after the first send returned: asyncio.sleep(delay)
dequeue_cy_sleep ==
    /\ ready # <<>> /\ Head(ready).t = "consumer"
    /\ consumer.pc = "ready" /\ consumer.stage = "first"
    /\ consumer' = [consumer EXCEPT !.pc = "sleep"]
    /\ ready' = Tail(ready)
    /\ delayLog' = SleepStarts(subs[consumer.cur].tid)
    /\ UNCHANGED <<devs, cyImpl, hcImpl, hcLog, subs, cyLog, prio_counter, queue, inflight,
                   sleeping, subHist, popLog, issued>>
    /\ UNCHANGED notDispVars

\* get() on an empty queue: the consumer waits for a put
dequeue_wait ==
    /\ ready # <<>> /\ Head(ready).t = "consumer"
    /\ consumer.pc = "ready" /\ consumer.stage \notin {"first", "wake"}
    /\ queue = {}
    /\ consumer' = [pc |-> "getting", cur |-> 0, stage |-> ""]
    /\ ready' = Tail(ready)
    /\ UNCHANGED <<devs, cyImpl, hcImpl, hcLog, subs, cyLog, prio_counter, queue, inflight,
                   sleeping, subHist, popLog, issued, delayLog>>
    /\ UNCHANGED notDispVars

\* get() takes the least entry and the action is called
dequeue ==
    /\ ready # <<>> /\ Head(ready).t = "consumer"
    /\ consumer.pc = "ready" /\ consumer.stage \notin {"first", "wake"}
    /\ queue # {}
    /\ LET m == QueueMin(queue)
           c == subs[m.id]
           verb == IF c.kind = "cy" THEN cy_states[1] ELSE c.verb
           op == Op(m.id, IF c.kind = "get" THEN "get" ELSE "set",
                    c.dev, c.outlet, verb, c.tid)
           nc == AfterIssue(m.id, IF c.kind = "cy" THEN "first" ELSE "")
       IN  /\ queue' = queue \ {m}
           /\ popLog' = Append(popLog, [id |-> m.id, before |-> {e.id : e \in queue}])
           /\ IF SendRaises(c, verb)
                 THEN /\ consumer' = [pc |-> "dead", cur |-> m.id, stage |-> ""]
                      /\ ready' = Tail(ready)
                      /\ UNCHANGED <<issued, inflight>>
                 ELSE /\ issued' = Append(issued, op)
                      /\ inflight' = inflight \cup {op}
                      /\ consumer' = nc
                      /\ ready' = ConsumerRequeue(Tail(ready), nc)
    /\ UNCHANGED <<devs, cyImpl, hcImpl, hcLog, subs, cyLog, prio_counter, sleeping, subHist,
                   delayLog>>
    /\ UNCHANGED notDispVars

\* the agent answers (or the engine gives up): the awaited call returns
SnmpDone ==
    \E op \in inflight :
        /\ inflight' = inflight \ {op}
        /\ IF consumer.pc = "io" /\ consumer.cur = op.id
              THEN /\ consumer' = [consumer EXCEPT !.pc = "ready",
                                       !.stage = IF @ = "second" THEN "" ELSE @]
                   /\ ready' = Append(ready, ConsumerTask)
              ELSE UNCHANGED <<consumer, ready>>
        /\ UNCHANGED <<devs, cyImpl, hcImpl, hcLog, subs, cyLog, prio_counter, queue,
                       sleeping, subHist, popLog, issued, delayLog>>
        /\ UNCHANGED notDispVars

\* the timer of Powerchange.__cy's asyncio.sleep(delay) fires
CyTimer ==
    /\ consumer.pc = "sleep"
    /\ consumer' = [consumer EXCEPT !.pc = "ready", !.stage = "wake"]
    /\ ready' = Append(ready, ConsumerTask)
    /\ delayLog' = SleepEnds(subs[consumer.cur].tid)
    /\ UNCHANGED <<devs, cyImpl, hcImpl, hcLog, subs, cyLog, prio_counter, queue, inflight,
                   sleeping, subHist, popLog, issued>>
    /\ UNCHANGED notDispVars

Init == InitDisp /\ hcImpl = "healthcheck_enqueue" /\ IdleRetry /\ IdleRead /\ IdleSer /\ IdleParse /\ IdleSnmp

Next ==
    \/ healthcheck_enqueue
    \/ PowerChange
    \/ CyCommand
    \/ outlet_manual_toggle_of
    \/ ToggleTimer
    \/ outlet_manual_toggle_on
    \/ enqueue
    \/ dequeue_wait
    \/ dequeue
    \/ dequeue_cy_sleep
    \/ dequeue_cy_on
    \/ SnmpDone
    \/ CyTimer

Spec == Init /\ [][Next]_vars

(***************************************************************************)
(* Power commands for any outlet the serial peer may name.  The reader     *)
(* submits a command for an outlet the transport does not know ('on 1 10'  *)
(* in test_converter_read_parse) like any other; the lookup of the outlet  *)
(* fails when the action runs.                                             *)
(***************************************************************************)
NamedOutlets == {"001", "010"}

PowerChangeNamed ==
    \E d \in devs, o \in NamedOutlets, s \in PowerVerbs :
        /\ Committed < MaxCmds
        /\ LET r == power_change_enqueue(subs, ready, d, o, s, 0) IN
               subs' = r.subs /\ ready' = r.ready
        /\ UNCHANGED <<devs, cyImpl, hcImpl, hcLog, cyLog, prio_counter, queue, consumer,
                       inflight, sleeping, subHist, popLog, issued, delayLog>>
        /\ UNCHANGED notDispVars

InitNamed ==
    /\ InitDisp
    /\ cyImpl = "outlet_manual_toggle"
    /\ hcImpl = "healthcheck_enqueue"
    /\ IdleRetry /\ IdleRead /\ IdleSer /\ IdleParse /\ IdleSnmp

NextNamed ==
    \/ PowerChangeNamed
    \/ healthcheck_enqueue
    \/ enqueue
    \/ dequeue_wait
    \/ dequeue
    \/ SnmpDone

SpecNamed == InitNamed /\ [][NextNamed]_vars

\* the healthchecks alone, in either wiring
InitHc ==
    /\ InitDisp
    /\ cyImpl = "Powerchange"
    /\ hcImpl \in HcImpls
    /\ IdleRetry /\ IdleRead /\ IdleSer /\ IdleParse /\ IdleSnmp

NextHc ==
    \/ healthcheck_enqueue
    \/ Healthcheck_timer
    \/ enqueue
    \/ dequeue_wait
    \/ dequeue
    \/ SnmpDone

SpecHc == InitHc /\ [][NextHc]_vars

(***************************************************************************)
(* The dispatcher under load that never ends.  The commands come from a    *)
(* fixed pool: a slot is taken by a submission and is free again when its  *)
(* action has returned, so that power changes and healthchecks can recur   *)
(* without bound.  The keys matter only through their order and sign, and  *)
(* the counter only by exceeding every key in the queue; the queue is      *)
(* kept up to the renumbering that preserves both.  Nothing is logged.     *)
(***************************************************************************)
\* pool slots holding power changes; the others hold healthchecks
PoolLows == 2

\* the request in pool slot id, as the supervisor builds it
PoolCmd(id) ==
    IF id <= PoolLows THEN Cmd("set", FALSE, "002", "001", "of", 0)
                      ELSE Cmd("get", TRUE, "002", "001", "get", 0)

Abs(n) == IF n < 0 THEN -n ELSE n

\* how many keys of q were drawn from the counter before the key of e
KeyRank(q, e) == Cardinality({x \in q : Abs(x.prio) < Abs(e.prio)})

Renumber(q) ==
    {[prio |-> enqueue_priority(KeyRank(q, e), subs[e.id].high), id |-> e.id] : e \in q}

\* slots whose request is neither waiting, queued nor being run
PoolFree ==
    {id \in 1..Len(subs) :
        /\ \A k \in 1..Len(ready) : ready[k] # EnqueueTask(id)
        /\ \A e \in queue : e.id # id
        /\ ~(consumer.cur = id /\ consumer.pc \in {"io", "ready"})}

InitLoad ==
    /\ devs = {"002"}
    /\ cyImpl = "Powerchange"
    /\ hcImpl = "healthcheck_enqueue"
    /\ subs = [id \in 1..MaxCmds |-> PoolCmd(id)]
    /\ cyLog = <<>>
    /\ ready = <<ConsumerTask>>
    /\ prio_counter = 0
    /\ queue = {}
    /\ consumer = [pc |-> "ready", cur |-> 0, stage |-> ""]
    /\ inflight = {}
    /\ sleeping = {}
    /\ subHist = <<>>
    /\ popLog = <<>>
    /\ issued = <<>>
    /\ delayLog = <<>>
    /\ hcLog = <<>>
    /\ IdleRetry /\ IdleRead /\ IdleSer /\ IdleParse /\ IdleSnmp

\* the interval job fires again: a GET of the first outlet, high priority
healthcheck_recurs ==
    /\ \E id \in PoolFree :
        /\ subs[id].high
        /\ ready' = Append(ready, EnqueueTask(id))
    /\ UNCHANGED <<devs, cyImpl, hcImpl, hcLog, subs, cyLog, prio_counter, queue,
                   consumer, inflight, sleeping, subHist, popLog, issued, delayLog>>
    /\ UNCHANGED notDispVars

\* another power command arrives: a SET, low priority
power_change_recurs ==
    /\ \E id \in PoolFree :
        /\ ~subs[id].high
        /\ ready' = Append(ready, EnqueueTask(id))
    /\ UNCHANGED <<devs, cyImpl, hcImpl, hcLog, subs, cyLog, prio_counter, queue,
                   consumer, inflight, sleeping, subHist, popLog, issued, delayLog>>
    /\ UNCHANGED notDispVars

\* QueueRunner.enqueue, as in enqueue above
enqueue_recurs ==
    /\ ready # <<>> /\ Head(ready).t = "enqueue"
    /\ LET id == Head(ready).id
           priority == enqueue_priority(prio_counter, subs[id].high)
           wake == consumer.pc = "getting"
           q == Renumber(queue \cup {[prio |-> priority, id |-> id]})
       IN  /\ prio_counter' = Cardinality(q)
           /\ queue' = q
           /\ consumer' = IF wake THEN [consumer EXCEPT !.pc = "ready"] ELSE consumer
           /\ ready' = IF wake THEN Append(Tail(ready), ConsumerTask) ELSE Tail(ready)
    /\ UNCHANGED <<devs, cyImpl, hcImpl, hcLog, subs, cyLog, inflight, sleeping,
                   subHist, popLog, issued, delayLog>>
    /\ UNCHANGED notDispVars

\* QueueRunner.dequeue, as in dequeue above
dequeue_recurs ==
    /\ ready # <<>> /\ Head(ready).t = "consumer"
    /\ consumer.pc = "ready"
    /\ queue # {}
    /\ LET m == QueueMin(queue)
           c == subs[m.id]
           op == Op(m.id, IF c.kind = "get" THEN "get" ELSE "set",
                    c.dev, c.outlet, c.verb, c.tid)
           nc == AfterIssue(m.id, "")
           q == Renumber(queue \ {m})
       IN  /\ queue' = q
           /\ prio_counter' = Cardinality(q)
           /\ IF SendRaises(c, c.verb)
                 THEN /\ consumer' = [pc |-> "dead", cur |-> m.id, stage |-> ""]
                      /\ ready' = Tail(ready)
                      /\ UNCHANGED inflight
                 ELSE /\ inflight' = inflight \cup {op}
                      /\ consumer' = nc
                      /\ ready' = ConsumerRequeue(Tail(ready), nc)
    /\ UNCHANGED <<devs, cyImpl, hcImpl, hcLog, subs, cyLog, sleeping, subHist,
                   popLog, issued, delayLog>>
    /\ UNCHANGED notDispVars

NextLoad ==
    \/ healthcheck_recurs
    \/ power_change_recurs
    \/ enqueue_recurs
    \/ dequeue_wait
    \/ dequeue_recurs
    \/ SnmpDone

\* the loop runs every ready task, and every operation returns in the end
SpecLoad ==
    /\ InitLoad /\ [][NextLoad]_vars
    /\ WF_vars(enqueue_recurs) /\ WF_vars(dequeue_wait)
    /\ WF_vars(dequeue_recurs) /\ WF_vars(SnmpDone)

(***************************************************************************)
(* The retrying requests.  Four loops exist: CommandWithRetry.send_command *)
(* (commands/retries.py), UdpCommand.send_command (commands.py),           *)
(* BaseDeviceCmd.run_cmd (requests/basedevicecmd.py) and                   *)
(* PowerChangeCmd.run_cmd (nrrequests/powerchangecmd.py).  The transport   *)
(* answers each call with an engine error indication and a PDU error       *)
(* status, or the call times out.                                          *)
(***************************************************************************)
Impls == {"CommandWithRetry", "UdpCommand", "BaseDeviceCmd", "PowerChangeCmd"}

Replies ==
    {[ei |-> a, es |-> b, timeout |-> FALSE] : a, b \in BOOLEAN}
        \cup {[ei |-> FALSE, es |-> FALSE, timeout |-> TRUE]}

\* TransportSnmp.get_outlet_state / set_outlet_state: the ok of the pair
TransportOk(r) == ~(r.ei \/ r.es)

\* the test each loop applies to a reply that arrived in time
CmdSuccess(i, r) ==
    CASE i = "CommandWithRetry" -> TransportOk(r)
      [] i = "UdpCommand"       -> TransportOk(r)
      [] i = "BaseDeviceCmd"    -> ~r.ei \/ r.es
      [] i = "PowerChangeCmd"   -> ~r.ei /\ ~r.es

\* UdpCommand.send_command goes on with the loop after a success
ReturnsOnSuccess(i) == i # "UdpCommand"

\* run_cmd sleeps after every attempt that did not return
SleepsAfterAttempt(i) == i \in {"BaseDeviceCmd", "PowerChangeCmd"}

\* the value after the loop: UdpCommand.send_command has no return
ExhaustedValue(i) == IF i = "UdpCommand" THEN "None" ELSE "False"

InitRetry ==
    /\ IdleDisp
    /\ IdleRead
    /\ IdleSer /\ IdleParse /\ IdleSnmp
    /\ impl \in Impls
    /\ max_attempts \in 0..MaxAttempts
    /\ attempt = 0
    /\ rpc = "new"
    /\ ncalls = 0
    /\ replies = <<>>
    /\ ret = ""
    /\ remaining = 0
    /\ records = <<>>

\* the deadline of a timeout scope that is left open over the attempts
asyncio_timeout_kept(left) == left

\* `async with asyncio.timeout(self.timeout)` inside the loop's body: every
\* attempt opens a scope of its own, with the whole timeout ahead
asyncio_timeout(left) == TimeoutTicks

\* the handler the loop calls for a finished attempt
HandlerOf(i, r) ==
    IF r.timeout THEN "timeout"
    ELSE IF CmdSuccess(i, r) THEN "success"
    ELSE "protocol_failure"

\* `for attempt in range(max_attempts)`: the next call, or the loop's end
LoopHead(a) ==
    IF a < max_attempts
       THEN /\ rpc' = "awaiting" /\ ncalls' = ncalls + 1 /\ ret' = ret
            /\ remaining' = asyncio_timeout(remaining)
       ELSE /\ rpc' = "returned" /\ ncalls' = ncalls /\ ret' = ExhaustedValue(impl)
            /\ remaining' = remaining

\* max_attempts_reached_handler is called when the loop runs out
Exhausted(a) == IF a < max_attempts THEN <<>> ELSE <<"max_attempts_exhausted">>

\* send_command() / run_cmd() is called
send_command ==
    /\ rpc = "new"
    /\ LoopHead(0)
    /\ records' = records \o Exhausted(0)
    /\ UNCHANGED <<impl, max_attempts, attempt, replies>>
    /\ UNCHANGED notRetryVars

\* the awaited transport call ends: a reply, or asyncio.timeout expires
TransportReply ==
    \E r \in Replies :
        /\ rpc = "awaiting"
        /\ r.timeout <=> remaining = 0
        /\ replies' = Append(replies, r)
        /\ IF ~r.timeout /\ CmdSuccess(impl, r) /\ ReturnsOnSuccess(impl)
              THEN /\ rpc' = "returned" /\ ret' = "True"
                   /\ records' = Append(records, HandlerOf(impl, r))
                   /\ UNCHANGED <<attempt, ncalls, remaining>>
              ELSE IF SleepsAfterAttempt(impl)
                      THEN /\ rpc' = "sleep"
                           /\ records' = Append(records, HandlerOf(impl, r))
                           /\ UNCHANGED <<attempt, ncalls, ret, remaining>>
                      ELSE /\ attempt' = attempt + 1
                           /\ LoopHead(attempt + 1)
                           /\ records' = Append(records, HandlerOf(impl, r))
                                             \o Exhausted(attempt + 1)
        /\ UNCHANGED <<impl, max_attempts>>
        /\ UNCHANGED notRetryVars

\* asyncio.sleep(delay) at the end of an iteration is over
RetryDelay ==
    /\ rpc = "sleep"
    /\ attempt' = attempt + 1
    /\ LoopHead(attempt + 1)
    /\ records' = records \o Exhausted(attempt + 1)
    /\ UNCHANGED <<impl, max_attempts, replies>>
    /\ UNCHANGED notRetryVars

\* the clock moves on while the call of the transport is awaited
TimeoutTick ==
    /\ rpc = "awaiting"
    /\ remaining > 0
    /\ remaining' = remaining - 1
    /\ UNCHANGED <<impl, max_attempts, attempt, rpc, ncalls, replies, ret, records>>
    /\ UNCHANGED notRetryVars

NextRetry ==
    \/ send_command
    \/ TransportReply
    \/ TimeoutTick
    \/ RetryDelay

SpecRetry == InitRetry /\ [][NextRetry]_vars

(***************************************************************************)
(* The command parser: ParserKvmSequence.parse over the primitives of      *)
(* BaseParser.  A text is a sequence of one-character strings; positions   *)
(* count from 0 as in the source.                                          *)
(***************************************************************************)
CR == "\r"

DigitChars == <<"0", "1", "2", "3", "4", "5", "6", "7", "8", "9">>

IsDigit(c) == \E i \in 1..10 : DigitChars[i] = c

DigitVal(c) == (CHOOSE i \in 1..10 : DigitChars[i] = c) - 1

\* int(''.join(chars))
RECURSIVE ToInt(_)
ToInt(ds) ==
    IF ds = <<>> THEN 0
    ELSE ToInt(SubSeq(ds, 1, Len(ds) - 1)) * 10 + DigitVal(ds[Len(ds)])

\* the Python slice text[a:b]
Slice(text, a, b) == SubSeq(text, a + 1, IF b < Len(text) THEN b ELSE Len(text))

RECURSIVE remove_leading_whitespace(_, _)
remove_leading_whitespace(text, pos) ==
    IF pos = Len(text) THEN pos
    ELSE IF text[pos + 1] # " " THEN pos
    ELSE remove_leading_whitespace(text, pos + 1)

\* keyword's loop: the first keyword that is at the cursor p
keyword_at(text, p, keywords) ==
    LET found == {i \in 1..Len(keywords) :
                     Slice(text, p, p + Len(keywords[i])) = keywords[i]}
    IN  IF found = {} THEN [ok |-> FALSE, idx |-> 0, pos |-> p]
        ELSE LET i == CHOOSE x \in found : \A y \in found : x <= y
             IN  [ok |-> TRUE, idx |-> i, pos |-> p + Len(keywords[i])]

\* the first keyword found at the cursor, after leading blanks
keyword(text, pos, keywords) ==
    keyword_at(text, remove_leading_whitespace(text, pos), keywords)

RECURSIVE NumberEnd(_, _)
NumberEnd(text, pos) ==
    IF pos < Len(text) /\ IsDigit(text[pos + 1]) THEN NumberEnd(text, pos + 1)
    ELSE pos

\* search_positive_number once the digits from p up to e are collected
number_found(text, p, e) ==
    IF e = p THEN [ok |-> FALSE, exc |-> "ParseError", val |-> 0, pos |-> p]
    ELSE [ok |-> TRUE, exc |-> "", val |-> ToInt(Slice(text, p, e)), pos |-> e]

number_at(text, p) == number_found(text, p, NumberEnd(text, p))

search_positive_number(text, pos) ==
    number_at(text, remove_leading_whitespace(text, pos))

\* search_uint8 above 256: text_pos is reset, then the arguments of
\* logger.error are evaluated and self.text_post does not exist
search_uint8_raises == "AttributeError"

\* search_uint8 on the number r that was found from start_pos
uint8_check(r, start_pos) ==
    IF r.ok /\ r.val > 256
       THEN [ok |-> FALSE, exc |-> search_uint8_raises, val |-> 0, pos |-> start_pos]
       ELSE r

search_uint8(text, pos) == uint8_check(search_positive_number(text, pos), pos)

CommandKeywords == << <<"o", "n">>, <<"o", "f">>, <<"c", "y">>, <<"q", "u", "i", "t">>, <<>> >>

CommandNames == <<"on", "of", "cy", "quit", "">>

\* what parse gives back: exc = "" is a return, otherwise the exception
\* raised; pos is the cursor at that moment and from the cursor at which
\* the search_uint8 that raised had started (-1 when none raised)
Parsed(exc, cmd, bank, port, pos, from) ==
    [ok |-> exc = "", exc |-> exc, cmd |-> cmd, bank |-> bank, port |-> port,
     pos |-> pos, from |-> from]

Terminator == << <<CR>> >>

\* parse after the tokens: self.keyword('\r') gave term
parse_terminal(cmd, bank, port, term) ==
    IF term.ok THEN Parsed("", cmd, bank, port, term.pos, -1)
    ELSE Parsed("ParseError", cmd, 0, 0, term.pos, -1)

\* search_for_port gave port
parse_port(buffer, cmd, bank, port) ==
    IF port.ok
       THEN parse_terminal(cmd, bank.val, port.val, keyword(buffer, port.pos, Terminator))
       ELSE Parsed(port.exc, cmd, 0, 0, port.pos, bank.pos)

\* search_for_bank, started at p1, gave bank
parse_bank(buffer, cmd, p1, bank) ==
    IF bank.ok THEN parse_port(buffer, cmd, bank, search_uint8(buffer, bank.pos))
    ELSE Parsed(bank.exc, cmd, 0, 0, bank.pos, p1)

\* self.parse_funcs[command]() with the cursor at p1
parse_sequence(buffer, cmd, p1) ==
    IF cmd \in {"on", "of", "cy"}
       THEN parse_bank(buffer, cmd, p1, search_uint8(buffer, p1))
       ELSE parse_terminal(cmd, 0, 0, keyword(buffer, p1, Terminator))

parse_command(buffer, c) ==
    parse_sequence(buffer, CommandNames[c.idx], remove_leading_whitespace(buffer, c.pos))

\* ser2snmp ParserKvmSequence.parse
parse(buffer) == parse_command(buffer, keyword(buffer, 0, CommandKeywords))

\* sersnmpparsers ParserKvmSequence.parse (the parser of SerialListener):
\* no cy keyword, no terminator, and '' matches whatever is there
ListenerKeywords == << <<"o", "n">>, <<"o", "f">>, <<"q", "u", "i", "t">>, <<>> >>

ListenerNames == <<"on", "of", "quit", "">>

\* rule_token_port; match() puts the cursor back on a ParseError
rule_token_port(cmd, bank, port) ==
    IF port.ok THEN Parsed("", cmd, bank.val, port.val, port.pos, -1)
    ELSE Parsed(port.exc, cmd, 0, 0, bank.pos, bank.pos)

rule_token_bank(text, cmd, pos, bank) ==
    IF bank.ok THEN rule_token_port(cmd, bank, search_uint8(text, bank.pos))
    ELSE Parsed(bank.exc, cmd, 0, 0, pos, pos)

rule_token_command(text, cmd, pos) ==
    IF cmd \in {"quit", ""} THEN Parsed("", cmd, 0, 0, pos, -1)
    ELSE rule_token_bank(text, cmd, pos, search_uint8(text, pos))

sersnmp_start(text, c) == rule_token_command(text, ListenerNames[c.idx], c.pos)

sersnmp_parse(text) == sersnmp_start(text, keyword(text, 0, ListenerKeywords))

\* f'{int(n):03d}'
RECURSIVE DecimalString(_)
DecimalString(n) ==
    IF n < 10 THEN DigitChars[n + 1]
    ELSE DecimalString(n \div 10) \o DigitChars[(n % 10) + 1]

Pad3(n) ==
    IF n < 10 THEN "00" \o DecimalString(n)
    ELSE IF n < 100 THEN "0" \o DecimalString(n)
    ELSE DecimalString(n)

(***************************************************************************)
(* The parsers on their own: a segment is drawn, and parse is applied to   *)
(* it once.  ser2snmp's parse is given the segment with its terminator;    *)
(* SerialListener gives the sersnmpparsers parse the text in front of the  *)
(* terminator, and nothing when there is none.                             *)
(***************************************************************************)
ParserClasses == {"ser2snmp", "sersnmpparsers"}

Verbs == {"on", "of", "cy"}

VerbChars == [on |-> <<"o", "n">>, of |-> <<"o", "f">>, cy |-> <<"c", "y">>]

\* the ids written into the segments
Ids == {0, 1, 2, 10, 255, 256, 257, 1000}

\* str(n) as characters
RECURSIVE DigitsOf(_)
DigitsOf(n) ==
    IF n < 10 THEN <<DigitChars[n + 1]>>
    ELSE DigitsOf(n \div 10) \o <<DigitChars[(n % 10) + 1]>>

CommandSegment(verb, d, o) ==
    VerbChars[verb] \o <<" ">> \o DigitsOf(d) \o <<" ">> \o DigitsOf(o) \o <<CR>>

QuitSegment == <<"q", "u", "i", "t", CR>>

EmptySegment == <<CR>>

OtherSegments ==
    { <<"s", "h", "u", "t", "d", "o", "w", "n", " ", "1", " ", "1", CR>>,
      <<"1", " ", "1", CR>>,
      <<"o", "f", " ", "o", "n", " ", "1", " ", "1", CR>>,
      <<"o", "n", " ", "-", "1", " ", "1", CR>>,
      <<"o", "n", " ", "1", " ", "-", "1", CR>>,
      <<"o", "n", " ", "1", " ", "1">>,
      <<"q", "u", "i", "t">>,
      <<"o", "n", "1", "1", CR>>,
      <<"o", "n", "1", " ", "1", CR>>,
      <<"o", "n", " ", "1", "1", CR>>,
      <<"o", "n", " ", " ", "1", " ", " ", "1", CR>>,
      <<" ", "o", "n", " ", "1", " ", "1", CR>>,
      <<"o", "n", " ", "1", " ", "1", " ", CR>>,
      <<"o", "n", " ", "1", " ", "1", "x", CR>>,
      <<"o", "n", " ", "1", " ", "1", " ", "x", CR>>,
      <<"q", "u", "i", "t", " ", "1", CR>> }

SegmentTexts ==
    {CommandSegment(v, d, o) : v \in Verbs, d \in Ids, o \in Ids}
        \cup {QuitSegment, EmptySegment} \cup OtherSegments

Terminated(sg) == sg # <<>> /\ sg[Len(sg)] = CR

\* read_buffer[curr_seq_start_pos:i]: the text in front of the \r
Payload(sg) == SubSeq(sg, 1, Len(sg) - 1)

InitParse ==
    /\ IdleDisp /\ IdleRetry /\ IdleRead /\ IdleSer /\ IdleSnmp
    /\ parser_cls \in ParserClasses
    /\ segment \in SegmentTexts
    /\ outcome = NoOutcome

ser2snmp_parse ==
    /\ parser_cls = "ser2snmp"
    /\ outcome = NoOutcome
    /\ outcome' = parse(segment)
    /\ UNCHANGED <<parser_cls, segment>>
    /\ UNCHANGED notParseVars

sersnmpparsers_parse ==
    /\ parser_cls = "sersnmpparsers"
    /\ outcome = NoOutcome
    /\ Terminated(segment)
    /\ outcome' = sersnmp_parse(Payload(segment))
    /\ UNCHANGED <<parser_cls, segment>>
    /\ UNCHANGED notParseVars

NextParse ==
    \/ ser2snmp_parse
    \/ sersnmpparsers_parse

SpecParse == InitParse /\ [][NextParse]_vars

(***************************************************************************)
(* The SNMP classes.  TransportSnmpV1V2 and TransportSnmpV3                *)
(* (transport/snmp.py) build their authentication data once, in the        *)
(* constructor; SnmpDeviceV1V2 (device.py), made by                        *)
(* create_device_from_config_dict, builds it at every request.  `sent`     *)
(* holds what getCmd and setCmd were given.                                *)
(***************************************************************************)
\* how many requests are followed
MaxSent == 2

SnmpClasses == {"TransportSnmpV1V2", "SnmpDeviceV1V2", "TransportSnmpV3"}

SecurityLevels == {"noAuthNoPriv", "authNoPriv", "authPriv"}

CommunityConfs ==
    [ver : {"v1", "v2"}, public_community : {"public", "ro"},
     private_community : {"private", "rw"}]

UsmConfs ==
    [ver : {"v3"}, user : {"username"},
     auth_protocol : {"SHA", "MD5"}, auth_passphrase : {"authpw"},
     priv_protocol : {"AES", "DES"}, priv_passphrase : {"privpw"},
     security_level : SecurityLevels]

\* the version number the class is constructed with
\* create_device_from_config_dict passes 1 for 'v1' and for 'v2'
snmp_version(cls, conf) ==
    IF cls = "SnmpDeviceV1V2" THEN 1
    ELSE IF conf.ver = "v1" THEN 1
    ELSE IF conf.ver = "v2" THEN 2 ELSE 3

\* mpModel=0 if version == 1 else 1
mpModel(version) == IF version = 1 THEN 0 ELSE 1

CommunityData(name, version) ==
    [kind |-> "community", name |-> name, mpModel |-> mpModel(version)]

\* match auth_protocol: case 'SHA'
auth_protocol_of(name) == IF name = "SHA" THEN "usmHMACSHAAuthProtocol" ELSE name

\* match priv_protocol: case 'AES'
priv_protocol_of(name) == IF name = "AES" THEN "usmAesCfb128Protocol" ELSE name

\* a masking that nulls nothing
security_level_unmasked(level) == {}

\* match security_level: the fields set to None
security_level_masked(level) ==
    IF level = "noAuthNoPriv" THEN {"authProtocol", "authKey", "privProtocol", "privKey"}
    ELSE IF level = "authNoPriv" THEN {"privProtocol", "privKey"}
    ELSE {}

Masked(level, field, value) ==
    IF field \in security_level_masked(level) THEN "None" ELSE value

UsmUserData(conf) ==
    [kind |-> "usm", user |-> conf.user,
     authProtocol |-> Masked(conf.security_level, "authProtocol",
                             auth_protocol_of(conf.auth_protocol)),
     authKey |-> Masked(conf.security_level, "authKey", conf.auth_passphrase),
     privProtocol |-> Masked(conf.security_level, "privProtocol",
                             priv_protocol_of(conf.priv_protocol)),
     privKey |-> Masked(conf.security_level, "privKey", conf.priv_passphrase)]

\* TransportSnmp.__init__: session_read_auth, session_write_auth
\* SnmpDeviceV1V2 keeps the two community names and builds at each request
Session(cls, conf) ==
    IF cls = "TransportSnmpV3"
       THEN [read_auth |-> UsmUserData(conf), write_auth |-> UsmUserData(conf)]
    ELSE IF cls = "TransportSnmpV1V2"
       THEN [read_auth |-> CommunityData(conf.public_community, snmp_version(cls, conf)),
             write_auth |-> CommunityData(conf.private_community, snmp_version(cls, conf))]
    ELSE [read_auth |-> CommunityData(conf.public_community, snmp_version(cls, conf)),
          write_auth |-> CommunityData(conf.public_community, snmp_version(cls, conf))]

InitSnmp ==
    /\ IdleDisp /\ IdleRetry /\ IdleRead /\ IdleSer /\ IdleParse
    /\ snmp_cls \in SnmpClasses
    /\ snmp_conf \in IF snmp_cls = "TransportSnmpV3" THEN UsmConfs ELSE CommunityConfs
    /\ session = Session(snmp_cls, snmp_conf)
    /\ sent = <<>>

\* getCmd(engine, read auth, target, context, ObjectType(oid))
get_outlet_state ==
    /\ Len(sent) < MaxSent
    /\ \E outlet \in oids :
          sent' = Append(sent, [op |-> "get", auth |-> session.read_auth,
                                outlet |-> outlet])
    /\ UNCHANGED <<snmp_cls, snmp_conf, session>>
    /\ UNCHANGED notSnmpVars

\* setCmd(engine, write auth, target, context, ObjectType(oid, state))
set_outlet_state ==
    /\ Len(sent) < MaxSent
    /\ \E outlet \in oids :
          sent' = Append(sent, [op |-> "set", auth |-> session.write_auth,
                                outlet |-> outlet])
    /\ UNCHANGED <<snmp_cls, snmp_conf, session>>
    /\ UNCHANGED notSnmpVars

NextSnmp ==
    \/ get_outlet_state
    \/ set_outlet_state

SpecSnmp == InitSnmp /\ [][NextSnmp]_vars

(***************************************************************************)
(* The device factory.  A device's configuration may or may not have an    *)
(* snmp section, and under it any of the keys v1, v2 and v3.               *)
(***************************************************************************)
SnmpVersions == {"v1", "v2", "v3"}

DeviceConfigs ==
    [has_snmp : BOOLEAN, versions : SUBSET SnmpVersions,
     public_community : {"public", "ro"}, private_community : {"private", "rw"},
     user : {"username", "admin"}]

\* the `if 'v1' ... elif 'v2' ... elif 'v3'` chain, and the raise behind it
factory_choice(conf) ==
    IF ~conf.has_snmp THEN "TypeError"
    ELSE IF "v1" \in conf.versions THEN "v1"
    ELSE IF "v2" \in conf.versions THEN "v2"
    ELSE IF "v3" \in conf.versions THEN "v3"
    ELSE "TypeError"

\* the object the factory returns for the section it chose
factory_device(conf, choice) ==
    CASE choice \in {"v1", "v2"} ->
             [cls |-> "SnmpDeviceV1V2", version |-> 1,
              public_community |-> conf.public_community,
              private_community |-> conf.private_community]
      [] choice = "v3" ->
             [cls |-> "SnmpDeviceV3", version |-> 1, user |-> conf.user]
      [] OTHER -> [cls |-> "TypeError"]

InitFactory ==
    /\ IdleDisp /\ IdleRetry /\ IdleRead /\ IdleSer /\ IdleParse
    /\ snmp_cls = ""
    /\ snmp_conf \in DeviceConfigs
    /\ session = <<>>
    /\ sent = <<>>

create_device_from_config_dict ==
    /\ snmp_cls = ""
    /\ snmp_cls' = factory_choice(snmp_conf)
    /\ session' = factory_device(snmp_conf, factory_choice(snmp_conf))
    /\ UNCHANGED <<snmp_conf, sent>>
    /\ UNCHANGED notSnmpVars

NextFactory == create_device_from_config_dict

SpecFactory == InitFactory /\ [][NextFactory]_vars

(***************************************************************************)
(* What an action reports.  The send functions of healthcheck_enqueue and  *)
(* power_change_enqueue, Powerchange.__send and Healthcheck.__send await   *)
(* the transport and log passed or failed.  The transport returns the pair *)
(* (ok, detail), detail being the four values of the SNMP engine.          *)
(***************************************************************************)
Senders ==
    {"healthcheck_enqueue.send", "power_change_enqueue.send",
     "Powerchange.__send", "Healthcheck.__send"}

\* the replies of the SNMP engine that arrive
EngineReplies == {r \in Replies : ~r.timeout}

\* return (not (err_indicator or err_status), (err_indicator, ...))
outlet_state_result(r) == <<TransportOk(r), r>>

\* `"passed" if success else "failed"`, success being what was awaited:
\* a tuple is true when it is not empty
passed_or_failed(success) == IF Len(success) # 0 THEN "passed" ELSE "failed"

InitReport ==
    /\ IdleDisp /\ IdleRetry /\ IdleRead /\ IdleSer /\ IdleParse
    /\ snmp_cls \in Senders
    /\ snmp_conf = <<>>
    /\ session = <<>>
    /\ sent = <<>>

\* one action runs: the transport answers, the outcome is logged
action_send ==
    \E r \in EngineReplies, outlet \in oids :
        /\ Len(sent) < MaxSent
        /\ LET success == outlet_state_result(r) IN
               sent' = Append(sent, [outlet |-> outlet, ok |-> success[1],
                                     detail |-> success[2],
                                     reported |-> passed_or_failed(success)])
        /\ UNCHANGED <<snmp_cls, snmp_conf, session>>
        /\ UNCHANGED notSnmpVars

NextReport == action_send

SpecReport == InitReport /\ [][NextReport]_vars

(***************************************************************************)
(* The serial readers.  Four callbacks exist: Rs232ToPdu.serial_conn_read  *)
(* (rs232_to_pdu/rs232topdu.py), Rs2323ToTripplite.read_serial_conn        *)
(* (rs232_to_tripplite/rs232tripplite.py), serial_reader                   *)
(* (rs232_to_pdu/__main__.py) and SerialListener.read_serial_conn          *)
(* (src/main.py).  Each read appends what arrived to the                   *)
(* buffer, scans the whole buffer for \r and hands every framed text to    *)
(* the parser and, when it parses, to the command translation.             *)
(***************************************************************************)
Readers == {"serial_conn_read", "read_serial_conn", "serial_reader", "SerialListener"}

\* rs232tripplite.py: the values sent by add_power_change_to_queue
POWERBAR_VALUES == [on |-> 2, of |-> 1, cy |-> 3]

Segments ==
    { <<"o", "n", " ", "1", " ", "1", CR>>,
      <<"o", "f", " ", "2", " ", "2", CR>>,
      <<"c", "y", " ", "1", " ", "1", CR>>,
      <<"c", "y", " ", "2", " ", "1", CR>>,
      <<"o", "n", " ", "9", " ", "1", CR>>,
      <<"q", "u", "i", "t", CR>>,
      <<"x", CR>>,
      <<CR>> }

RECURSIVE StreamsOf(_)
StreamsOf(n) ==
    IF n = 0 THEN {<<>>}
    ELSE {s \o t : s \in StreamsOf(n - 1), t \in Segments}

Streams == UNION {StreamsOf(n) : n \in 1..MaxSegs}

\* the characters at the positions ps of the stream
TextOf(ps) == [i \in 1..Len(ps) |-> stream[ps[i]]]

(***************************************************************************)
(* parsed_tokens_consume / consume_parsed_tokens / the else branch of      *)
(* serial_reader: what one parsed command submits.  The result is          *)
(* "KeyError" when the device is not configured.  SerialListener returns   *)
(* from the whole callback on quit and on the empty command ("return")     *)
(* and looks the outlet up in CONFIG before it submits.                    *)
(***************************************************************************)
\* a lookup that falls back to the first device
devices_get_default(name) == IF name \in DOMAIN devices THEN name ELSE "001"

\* self.devices[name]: a name that is not a key raises KeyError
devices_getitem(name) == IF name \in DOMAIN devices THEN name ELSE "KeyError"

Submission(how, d, o, verb, value, src) ==
    [how |-> how, high |-> FALSE, dev |-> d, outlet |-> o, verb |-> verb,
     value |-> value, src |-> src]

parsed_tokens_consume(rd, tokens, src) ==
    IF tokens.cmd \in {"quit", ""}
       THEN IF rd = "SerialListener" THEN "return" ELSE <<>>
    ELSE LET d == devices_getitem(Pad3(tokens.bank))
             o == Pad3(tokens.port)
         IN  IF d = "KeyError" THEN "KeyError"
             ELSE IF rd = "SerialListener" /\ o \notin oids THEN "KeyError"
             ELSE IF tokens.cmd = "cy" /\ "cy" \notin DOMAIN power_states(d)
                     THEN << Submission(IF rd = "serial_reader" THEN "Powerchange.cy"
                                        ELSE "outlet_manual_toggle",
                                        d, o, "cy", 0, src) >>
             ELSE << Submission(IF rd = "serial_reader" THEN "Powerchange" ELSE "set",
                                d, o, tokens.cmd,
                                IF rd \in {"read_serial_conn", "SerialListener"}
                                   THEN POWERBAR_VALUES[tokens.cmd]
                                   ELSE power_states(d)[tokens.cmd],
                                src) >>

(***************************************************************************)
(* The scan of one read cycle over the buffer buf (positions).  start is   *)
(* curr_seq_start_pos / chars_read; acc collects the texts parsed and the  *)
(* commands submitted.  The scan ends early (raised) when the translation  *)
(* raises or returns from the callback; the buffer is then left as it is.  *)
(***************************************************************************)
\* buffer_parse / the try block of serial_reader on the framed positions ps
Framed(rd, cycle, ps) ==
    LET tokens == IF rd = "SerialListener"
                     THEN sersnmp_parse(TextOf(SubSeq(ps, 1, Len(ps) - 1)))
                     ELSE parse(TextOf(ps))
        sub == IF tokens.ok THEN parsed_tokens_consume(rd, tokens, ps[1]) ELSE <<>>
    IN  [cycle |-> cycle, ps |-> ps,
         res |-> IF ~tokens.ok THEN "ParseError"
                 ELSE IF sub = "KeyError" THEN "KeyError"
                 ELSE IF sub = "return" THEN "return" ELSE "ok",
         subs |-> IF sub = "KeyError" \/ sub = "return" THEN <<>> ELSE sub]

RECURSIVE ScanBuffer(_, _, _, _, _, _)
ScanFramed(rd, cycle, buf, cursor, start, acc, e) ==
    IF e.res \in {"KeyError", "return"}
       THEN [acc EXCEPT !.parses = Append(@, e), !.raised = TRUE, !.start = start]
    ELSE IF e.res = "ParseError"
       THEN ScanBuffer(rd, cycle, buf, cursor + 1,
                       IF rd = "serial_reader" THEN start ELSE cursor + 1,
                       [acc EXCEPT !.parses = Append(@, e)])
    ELSE ScanBuffer(rd, cycle, buf, cursor + 1, cursor + 1,
                    [acc EXCEPT !.parses = Append(@, e), !.subs = @ \o e.subs])

ScanBuffer(rd, cycle, buf, cursor, start, acc) ==
    IF cursor >= Len(buf) THEN [acc EXCEPT !.start = start]
    ELSE IF stream[buf[cursor + 1]] # CR
       THEN ScanBuffer(rd, cycle, buf, cursor + 1, start, acc)
    ELSE ScanFramed(rd, cycle, buf, cursor, start, acc,
                    Framed(rd, cycle, Slice(buf, start, cursor + 1)))

\* what the callback leaves in the buffer
Compacted(rd, buf, r) ==
    IF r.raised THEN buf
    ELSE IF rd = "serial_reader" THEN Slice(buf, 0, r.start)
    ELSE Slice(buf, r.start, Len(buf))

\* one whole call of the reader callback on the data at positions chunk
ReadCycle(rd, cycle, buf0, chunk) ==
    LET buf == buf0 \o chunk
        r == ScanBuffer(rd, cycle, buf, 0, 0,
                        [parses |-> <<>>, subs |-> <<>>, raised |-> FALSE, start |-> 0])
    IN  [buffer |-> Compacted(rd, buf, r), parses |-> r.parses, subs |-> r.subs,
         raised |-> r.raised]

InitRead ==
    /\ IdleDisp
    /\ IdleRetry
    /\ IdleSer /\ IdleParse /\ IdleSnmp
    /\ reader \in Readers
    /\ stream \in Streams
    /\ delivered = 0
    /\ nreads = 0
    /\ read_buffer = <<>>
    /\ parseLog = <<>>
    /\ submitted = <<>>

\* the serial port is readable and n more characters are waiting
Read(rd) ==
    \E n \in 1..(Len(stream) - delivered) :
        /\ reader = rd
        /\ nreads < MaxReads
        /\ \E r \in {ReadCycle(rd, nreads + 1, read_buffer,
                                [i \in 1..n |-> delivered + i])} :
               /\ read_buffer' = r.buffer
               /\ parseLog' = parseLog \o r.parses
               /\ submitted' = submitted \o r.subs
        /\ delivered' = delivered + n
        /\ nreads' = nreads + 1
        /\ UNCHANGED <<reader, stream>>
        /\ UNCHANGED notReadVars

serial_conn_read == Read("serial_conn_read")

read_serial_conn == Read("read_serial_conn")

serial_reader == Read("serial_reader")

listener_read_serial_conn == Read("SerialListener")

NextRead ==
    \/ serial_conn_read
    \/ read_serial_conn
    \/ serial_reader
    \/ listener_read_serial_conn

SpecRead == InitRead /\ [][NextRead]_vars

(***************************************************************************)
(* The serial supervisor.  Two exist: Rs232ToPdu (rs232topdu.py), which    *)
(* installs serial_error_handler as the loop's exception handler, and      *)
(* SerialConn (serialconn.py), which registers __error_handler for OSError *)
(* with EventLoop (eventloop.py).  ser.live says that the open handle is   *)
(* still attached to a device; a read on a handle that is not raises       *)
(* OSError.  ser.joined says that the loop's thread is inside              *)
(* file_watchdog.join().                                                   *)
(***************************************************************************)
Supervisors == {"Rs232ToPdu", "SerialConn"}

\* what serial.Serial, the object kept in self.serial_conn (l.183), offers
SerialAttrs == {"is_open", "close", "read", "in_waiting", "fileno"}

ExcClass(name) == [kind |-> "class", name |-> name]

ExcInstance(name) == [kind |-> "instance", name |-> name]

\* EventLoop.handlers once SerialConn.open has run: its keys
handlers == {ExcClass("OSError")}

\* the window of the latest events
LogEvents(l, es) ==
    LET all == l \o es
    IN  IF Len(all) > MaxEvents
           THEN SubSeq(all, Len(all) - MaxEvents + 1, Len(all)) ELSE all

\* Rs232ToPdu.serial_error_handler; self.serial_conn.ser raises
\* AttributeError before anything is done
serial_error_handler(s, exc) ==
    IF exc.name # "OSError" THEN s
    ELSE IF "ser" \notin SerialAttrs THEN s
    ELSE [s EXCEPT !.reader = FALSE, !.conn = "closed", !.job = TRUE,
                   !.file_wd = "alive", !.joined = TRUE]

\* Rs232ToPdu.serial_conn_reconnect, present: can the device be opened
serial_conn_reconnect(s, present) ==
    IF ~present THEN s
    ELSE LET o == [s EXCEPT !.conn = "open", !.live = TRUE]
         IN  IF "ser" \notin SerialAttrs THEN o
             ELSE [o EXCEPT !.reader = TRUE, !.job = FALSE,
                            !.file_wd = "stopped", !.joined = FALSE]

\* SerialConn.__error_handler
SerialConn_error_handler(s) ==
    [s EXCEPT !.reader = FALSE, !.conn = "closed", !.job = TRUE,
              !.file_wd = "alive",
              !.joined = IF s.file_wd # "alive" THEN TRUE ELSE @]

\* SerialConn.open
SerialConn_open(s, present) ==
    IF present THEN [s EXCEPT !.conn = "open", !.live = TRUE, !.reader = TRUE]
    ELSE SerialConn_error_handler(s)

\* SerialConn.__reconnect
SerialConn_reconnect(s, present) ==
    LET o == SerialConn_open(s, present)
    IN  IF present
           THEN [o EXCEPT !.job = FALSE, !.file_wd = "stopped", !.joined = FALSE]
           ELSE o

\* EventLoop.__exception_handler: `context['exception'] in self.handlers`
\* looks the raised instance up among keys that are classes
EventLoop_exception_handler(s, exc) ==
    IF exc \in handlers THEN SerialConn_error_handler(s) ELSE s

\* Rs2323ToTripplite.serial_error_handler (rs232tripplite.py): the test
\* isinstance(OSError, context['exception']) has its arguments exchanged
\* and raises TypeError, whatever the exception is
Rs2323ToTripplite_serial_error_handler(s, exc) == s

\* SerialListener.serial_error_handler (rs232_to_tripplite/__main__.py):
\* `case OSError:` is a capture pattern, it matches every subject
SerialListener_serial_error_handler(s, exc) ==
    [s EXCEPT !.reader = FALSE, !.conn = "closed", !.job = TRUE,
              !.file_wd = "alive", !.joined = TRUE]

\* SerialListener.attempt_reconnect
SerialListener_attempt_reconnect(s, present) ==
    IF ~present THEN s
    ELSE [s EXCEPT !.conn = "open", !.live = TRUE, !.reader = TRUE, !.job = FALSE,
                   !.file_wd = "stopped", !.joined = FALSE]

\* the loop's exception handler, called with what a callback raised
ExceptionHandler(s, exc) ==
    CASE sup = "Rs232ToPdu"        -> serial_error_handler(s, exc)
      [] sup = "Rs2323ToTripplite" -> Rs2323ToTripplite_serial_error_handler(s, exc)
      [] sup = "SerialListener"    -> SerialListener_serial_error_handler(s, exc)
      [] OTHER                     -> EventLoop_exception_handler(s, exc)

Reconnect(s, present) ==
    CASE sup = "Rs232ToPdu"        -> serial_conn_reconnect(s, present)
      [] sup = "Rs2323ToTripplite" -> serial_conn_reconnect(s, present)
      [] sup = "SerialListener"    -> SerialListener_attempt_reconnect(s, present)
      [] OTHER                     -> SerialConn_reconnect(s, present)

Reopened(s, t) == t.conn = "open" /\ t.live /\ ~(s.conn = "open" /\ s.live)

\* start() / open() found the device and registered the reader
InitSer ==
    /\ IdleDisp
    /\ IdleRetry
    /\ IdleRead
    /\ IdleParse /\ IdleSnmp
    /\ sup \in Supervisors
    /\ dev_present = TRUE
    /\ ser = [conn |-> "open", live |-> TRUE, reader |-> TRUE, job |-> FALSE,
              file_wd |-> "new", joined |-> FALSE]
    /\ serLog = <<>>

\* the device goes away: the open handle is dead
Unplug ==
    /\ dev_present
    /\ dev_present' = FALSE
    /\ ser' = [ser EXCEPT !.live = FALSE]
    /\ serLog' = LogEvents(serLog, <<"unplug">>)
    /\ UNCHANGED sup
    /\ UNCHANGED notSerVars

\* the device node is created again; on_created reaches the watch's
\* handler (delivered) or not, and the handler runs the reconnect
Plug ==
    \E delivered_event \in BOOLEAN :
        /\ ~dev_present
        /\ dev_present' = TRUE
        /\ LET t == IF delivered_event /\ ser.file_wd = "alive"
                       THEN Reconnect(ser, TRUE) ELSE ser
           IN  /\ ser' = t
               /\ serLog' = LogEvents(serLog, IF Reopened(ser, t)
                                                THEN <<"plug", "reopen">>
                                                ELSE <<"plug">>)
        /\ UNCHANGED sup
        /\ UNCHANGED notSerVars

\* the 5 s interval of the scheduler is over: the reconnect job, when
\* there is one and the loop's thread is free to run it
PollInterval ==
    /\ LET t == IF ser.job /\ ~ser.joined
                   THEN Reconnect(ser, dev_present) ELSE ser
       IN  /\ ser' = t
           /\ serLog' = LogEvents(serLog, IF Reopened(ser, t)
                                            THEN <<"poll", "reopen">>
                                            ELSE <<"poll">>)
    /\ UNCHANGED <<sup, dev_present>>
    /\ UNCHANGED notSerVars

\* the loop calls the reader registered for the handle; what the read
\* raises goes to the loop's exception handler
SerialRead ==
    /\ ser.reader /\ ~ser.joined
    /\ IF ser.conn = "open" /\ ser.live
          THEN /\ serLog' = LogEvents(serLog, <<"read">>)
               /\ ser' = ser
          ELSE /\ serLog' = LogEvents(serLog, <<"oserror">>)
               /\ ser' = ExceptionHandler(ser, ExcInstance("OSError"))
    /\ UNCHANGED <<sup, dev_present>>
    /\ UNCHANGED notSerVars

NextSer ==
    \/ Unplug
    \/ Plug
    \/ PollInterval
    \/ SerialRead

SpecSer == InitSer /\ [][NextSer]_vars

\* time passes and a readable handle is served
SpecSerLive ==
    InitSer /\ [][NextSer]_vars /\ WF_vars(PollInterval) /\ WF_vars(SerialRead)

(***************************************************************************)
(* The fault handler of the loop under every exception.  Any callback may  *)
(* raise: the serial read raises OSError on a dead handle, the reader      *)
(* raises KeyError for a device that is not configured.  Three handlers    *)
(* are looked at: EventLoop.__exception_handler with the handler that      *)
(* SerialConn registers, and the serial_error_handler of the two           *)
(* rs232_to_tripplite supervisors.                                         *)
(***************************************************************************)
FaultSupervisors == {"SerialConn", "Rs2323ToTripplite", "SerialListener"}

ExcNames == {"OSError", "KeyError"}

InitFault ==
    /\ IdleDisp
    /\ IdleRetry
    /\ IdleRead
    /\ IdleParse /\ IdleSnmp
    /\ sup \in FaultSupervisors
    /\ dev_present = TRUE
    /\ ser = [conn |-> "open", live |-> TRUE, reader |-> TRUE, job |-> FALSE,
              file_wd |-> "new", joined |-> FALSE]
    /\ serLog = <<>>

\* a callback raises and the loop hands the exception to its handler
CallbackRaises ==
    \E name \in ExcNames :
        /\ ~ser.joined
        /\ serLog' = LogEvents(serLog, <<name>>)
        /\ ser' = ExceptionHandler(ser, ExcInstance(name))
        /\ UNCHANGED <<sup, dev_present>>
        /\ UNCHANGED notSerVars

NextFault ==
    \/ Unplug
    \/ Plug
    \/ PollInterval
    \/ SerialRead
    \/ CallbackRaises

SpecFault == InitFault /\ [][NextFault]_vars

(***************************************************************************)
(* The reconnect routines on their own.  serial_error_handler and          *)
(* SerialConn.__error_handler are written to leave the supervisor with the *)
(* reader removed, the handle closed, the reconnect job scheduled, the     *)
(* watch started and the calling thread inside file_watchdog.join(); the   *)
(* routines serial_conn_reconnect and SerialConn.__reconnect are           *)
(* registered to be called in that state, by the job and by the watch.     *)
(* The read buffer holds what the last read before the fault left in it.   *)
(***************************************************************************)
Down ==
    [conn |-> "closed", live |-> FALSE, reader |-> FALSE, job |-> TRUE,
     file_wd |-> "alive", joined |-> TRUE]

\* an incomplete segment read before the fault, as positions in the stream
StaleBuffers == {<<>>, <<1>>, <<1, 2>>}

InitReconn ==
    /\ IdleDisp
    /\ IdleRetry
    /\ IdleParse /\ IdleSnmp
    /\ reader = "" /\ stream = <<>> /\ delivered = 0 /\ nreads = 0
    /\ parseLog = <<>> /\ submitted = <<>>
    /\ read_buffer \in StaleBuffers
    /\ sup \in Supervisors
    /\ dev_present \in BOOLEAN
    /\ ser = Down
    /\ serLog = <<"oserror">>

NextReconn ==
    \/ Unplug
    \/ Plug
    \/ PollInterval
    \/ SerialRead

SpecReconn == InitReconn /\ [][NextReconn]_vars

(***************************************************************************)
(* Properties of the dispatcher.                                           *)
(***************************************************************************)
IsHigh(id) == subs[id].high

SetMax(S) == CHOOSE x \in S : \A y \in S : y <= x

SetMin(S) == CHOOSE x \in S : \A y \in S : x <= y

\* highs newest first, then lows in submission order
RECURSIVE Order(_)
Order(S) ==
    IF S = {} THEN <<>>
    ELSE LET highs == {x \in S : IsHigh(x)}
             nxt == IF highs # {} THEN SetMax(highs) ELSE SetMin(S)
         IN  <<nxt>> \o Order(S \ {nxt})

\* pops i..j happened with nothing stored in between
ClosedWindow(i, j) ==
    \A k \in i..(j - 1) : popLog[k + 1].before = popLog[k].before \ {popLog[k].id}

\* C1: items that were all queued before the first of them is popped are
\* consumed highs first, the highs newest first, the lows in submission
\* order (a low, a high, a low, a high come out as 4th, 2nd, 1st, 3rd).
C1_BatchOrder ==
    \A i \in 1..Len(popLog) : \A j \in i..Len(popLog) :
        ClosedWindow(i, j) =>
            \A k \in i..j : popLog[k].id = Order(popLog[i].before)[k - i + 1]

C1_Witness ==
    \E i \in 1..Len(popLog) :
        /\ i + 3 <= Len(popLog)
        /\ ClosedWindow(i, i + 3)
        /\ \E a, b, c, d \in popLog[i].before :
              /\ a < b /\ b < c /\ c < d
              /\ popLog[i].before = {a, b, c, d}
              /\ ~IsHigh(a) /\ IsHigh(b) /\ ~IsHigh(c) /\ IsHigh(d)
              /\ <<popLog[i].id, popLog[i + 1].id, popLog[i + 2].id, popLog[i + 3].id>>
                     = <<d, b, a, c>>

\* C2: at every pop, the item taken is never a low one while a high one
\* is in the queue.
C2_NoLowBeforeHigh ==
    \A k \in 1..Len(popLog) :
        ~IsHigh(popLog[k].id) => \A x \in popLog[k].before : ~IsHigh(x)

C2_Witness ==
    \E k \in 1..Len(popLog) :
        /\ IsHigh(popLog[k].id)
        /\ \E x \in popLog[k].before : ~IsHigh(x) /\ x < popLog[k].id

\* C3: at most one request is in flight, and it is the one the consumer
\* is waiting for: the consumer takes the next item only after the action
\* of the previous one has completed.
C3_OneInFlight ==
    /\ Cardinality(inflight) <= 1
    /\ \A op \in inflight : consumer.pc = "io" /\ consumer.cur = op.id

C3_Witness == inflight # {} /\ queue # {}

Quiescent ==
    /\ consumer.pc = "getting"
    /\ queue = {} /\ ready = <<>> /\ sleeping = {} /\ inflight = {}

IssuedOf(t, verb) ==
    {i \in 1..Len(issued) : issued[i].tid = t /\ issued[i].verb = verb}

SubmittedOf(t, verb) ==
    {i \in 1..Len(subs) : subs[i].tid = t /\ subs[i].verb = verb}

\* C10: a cy for a device without a cy value gives exactly one OFF and
\* exactly one ON request for the same device and outlet, the OFF both
\* submitted and executed before the ON.
C10_SynthesizedCycle ==
    \A t \in 1..Len(cyLog) :
        LET offs == IssuedOf(t, "of")
            ons == IssuedOf(t, "on")
        IN  /\ Cardinality(offs) <= 1 /\ Cardinality(ons) <= 1
            /\ \A j \in ons : \E i \in offs :
                  /\ i < j
                  /\ issued[i].dev = issued[j].dev
                  /\ issued[i].outlet = issued[j].outlet
                  /\ issued[i] \notin inflight
            /\ \A j \in offs \cup ons :
                  /\ issued[j].kind = "set"
                  /\ issued[j].dev = cyLog[t].dev
                  /\ issued[j].outlet = cyLog[t].outlet
                  /\ "cy" \notin DOMAIN power_states(issued[j].dev)
            /\ Cardinality(SubmittedOf(t, "of")) <= 1
            /\ Cardinality(SubmittedOf(t, "on")) <= 1
            /\ \A j \in SubmittedOf(t, "on") : \E i \in SubmittedOf(t, "of") : i < j
            /\ Quiescent => Cardinality(offs) = 1 /\ Cardinality(ons) = 1

C10_Witness ==
    /\ Len(cyLog) >= 1
    /\ Quiescent
    /\ IssuedOf(1, "of") # {} /\ IssuedOf(1, "on") # {}

\* C16: at every firing of the healthcheck, for each configured device
\* exactly one GET of that device's first outlet is submitted, at high
\* priority, and nothing else: every device of the configuration is
\* probed, not only the first.
C16_EveryDeviceProbed ==
    \A k \in 1..Len(hcLog) :
        /\ \A id \in hcLog[k] :
              /\ subs[id].kind = "get" /\ subs[id].high
              /\ subs[id].dev \in devs /\ subs[id].outlet = "001"
        /\ \A d \in devs : Cardinality({id \in hcLog[k] : subs[id].dev = d}) = 1

\* C11: in a synthesized cycle the ON is issued no earlier than the delay
\* after the OFF was issued: the ON follows the end of a sleep of its
\* cycle, and that sleep had not already run out when the OFF was issued,
\* whatever was queued ahead of the OFF.
C11_DelayAfterOff ==
    \A t \in 1..Len(cyLog) :
        \A j \in IssuedOf(t, "on") :
            \E i \in IssuedOf(t, "of") : \E k \in 1..Len(delayLog) :
                /\ delayLog[k].tid = t
                /\ i <= delayLog[k].to
                /\ delayLog[k].to < j

(***************************************************************************)
(* Properties of the serial supervisor.                                    *)
(***************************************************************************)
Up == ser.conn = "open" /\ ser.live /\ ser.reader

\* the reads that raised OSError with no reopening after them
Unrecovered ==
    {i \in 1..Len(serLog) :
        serLog[i] = "oserror" /\ \A k \in (i + 1)..Len(serLog) : serLog[k] # "reopen"}

\* C14: after a read raised OSError, and until a reconnect attempt has
\* reopened the handle, the reader callback is removed, the handle is
\* closed and no read of the handle takes place.
C14_NoReadWhileDown ==
    \A i \in Unrecovered :
        /\ ~ser.reader
        /\ ser.conn = "closed"
        /\ \A k \in (i + 1)..Len(serLog) : serLog[k] \notin {"read", "oserror"}

\* C15: whenever the device can be opened, the supervisor eventually is
\* UP (handle open on the device, reader registered) or the device has
\* gone away again; the periodic poll alone brings it back, with no
\* filesystem-create event delivered.
C15_PollReconnects == dev_present ~> (Up \/ ~dev_present)

\* a call of the transport that is not the request's first
NextAttemptStarts == ncalls >= 1 /\ ncalls' = ncalls + 1

\* C26: between consecutive attempts the request waits inter_attempt_delay,
\* and it does not wait after the final attempt nor after a successful one:
\* every attempt but the first starts out of the sleep, and the sleep is
\* entered only when a failed attempt has another one behind it.
C26_DelayBetweenAttempts ==
    [][/\ NextAttemptStarts => rpc = "sleep"
       /\ rpc' = "sleep" =>
              /\ attempt' + 1 < max_attempts
              /\ LET r == replies'[Len(replies')] IN r.timeout \/ ~CmdSuccess(impl, r)]_vars

\* this step ends an attempt by its timeout
TimedOut == Len(replies') = Len(replies) + 1 /\ replies'[Len(replies')].timeout

\* this step ends an attempt that follows one ended by its timeout
AfterTimeout ==
    /\ Len(replies') = Len(replies) + 1
    /\ replies # <<>> /\ replies[Len(replies)].timeout

\* C27: a timeout aborts only the attempt it occurs in.  The attempt is
\* classified as a timeout and counted as one attempt, the loop goes on
\* when attempts are left, the next attempt starts with the whole timeout
\* ahead of it, and that attempt is classified by its own reply alone.
C27_TimeoutAbortsOneAttempt ==
    [][/\ TimedOut =>
              /\ records'[Len(records) + 1] = "timeout"
              /\ Len(replies') = ncalls /\ ncalls <= max_attempts
              /\ attempt + 1 < max_attempts => rpc' \in {"awaiting", "sleep"}
       /\ ncalls' = ncalls + 1 => remaining' = TimeoutTicks
       /\ AfterTimeout =>
              records'[Len(records) + 1] = HandlerOf(impl, replies'[Len(replies')])]_vars

\* an attempt timed out and the next one succeeded, which ended the request
C27_Witness ==
    /\ impl \in {"CommandWithRetry", "PowerChangeCmd"}
    /\ rpc = "returned" /\ ret = "True"
    /\ Len(replies) >= 2
    /\ replies[Len(replies) - 1].timeout

IsExhausted(x) == x = "max_attempts_exhausted"

IsOutcome(x) == x \in {"success", "protocol_failure", "timeout"}

\* C28: exactly one outcome record per attempt (success, protocol_failure
\* or timeout); max_attempts_exhausted is recorded exactly once when the
\* request has ended with every attempt failed and never otherwise; no
\* record follows a success.
C28_OneRecordPerAttempt ==
    /\ Len(SelectSeq(records, IsOutcome)) = Len(replies)
    /\ Len(SelectSeq(records, IsExhausted)) =
           IF rpc = "returned" /\ \A k \in 1..Len(records) : records[k] # "success"
              THEN 1 ELSE 0
    /\ \A k \in 1..Len(records) : records[k] = "success" => k = Len(records)

\* C29: during the cy_delay of a synthesized cycle the dispatcher is not
\* held: a request submitted between the OFF and the ON can be executed
\* between them, so the consumer never sits in the delay while a request
\* waits in the queue.
C29_DispatcherNotHeld == ~(consumer.pc = "sleep" /\ queue # {})

\* this step gave an exception of the class named to the fault handler
FaultStep(name) ==
    /\ serLog' # <<>> /\ serLog'[Len(serLog')] = name
    /\ serLog' # serLog \/ ser' # ser

\* the reconnect state machine has been entered
Reconnecting(s) == ~s.reader /\ s.conn = "closed" /\ s.job

\* C30: the reconnect state machine is entered if and only if the
\* exception that reaches the loop's fault handler is an OSError: every
\* OSError starts it, and any other exception neither removes the reader
\* nor closes the handle.
C30_ReconnectIffOSError ==
    [][/\ FaultStep("oserror") \/ FaultStep("OSError") => Reconnecting(ser')
       /\ FaultStep("KeyError") =>
              ser'.reader = ser.reader /\ ser'.conn = ser.conn]_vars

\* this step reopened the handle on the device
Reopening == Reopened(ser, ser')

ThreadOf(event) == IF event = "plug" THEN "watchdog" ELSE "event_loop"

KeyOf(k) == enqueue_priority(k - 1, subs[subHist[k]].high)

\* C40: no two items ever submitted to the dispatcher carry the same
\* priority key, whatever the sequence of high and low submissions, the
\* first one with its counter of 0 included; the items in the queue carry
\* the keys they were given, so the key alone decides the order.
C40_KeysDistinct ==
    /\ \A j, k \in 1..Len(subHist) : KeyOf(j) = KeyOf(k) => j = k
    /\ \A e \in queue : \E k \in 1..Len(subHist) : subHist[k] = e.id /\ e.prio = KeyOf(k)
    /\ \A a, b \in queue : a.prio = b.prio => a = b

\* a high first item (key 0) and high and low items after it, together
\* in the queue
C40_Witness ==
    /\ Len(subHist) >= 3
    /\ subs[subHist[1]].high
    /\ \E k \in 2..Len(subHist) : ~subs[subHist[k]].high
    /\ \E k \in 2..Len(subHist) : subs[subHist[k]].high
    /\ Cardinality(queue) >= 2

\* no task is runnable, no operation is in flight, no timer is pending
AtRest == ready = <<>> /\ inflight = {} /\ sleeping = {} /\ consumer.pc # "sleep"

\* C25: a request whose action fails when executed (unknown verb or
\* unknown outlet) does not stop the dispatcher: the consumer goes on to
\* pop and execute every item queued behind it, so nothing is left in the
\* queue when the program has come to rest.
C25_FailedActionSkipped == AtRest => queue = {}

(***************************************************************************)
(* C17: once the consumer runs, every item put into the queue is           *)
(* eventually popped and executed, whatever its priority and whatever is   *)
(* submitted after it; a low-priority power change is not postponed        *)
(* forever by the recurring high-priority healthchecks.                    *)
(***************************************************************************)
Queued(id) == \E e \in queue : e.id = id

Executing(id) == consumer.pc = "io" /\ consumer.cur = id

HighArriving ==
    \E k \in 1..Len(ready) : ready[k].t = "enqueue" /\ subs[ready[k].id].high

ReplyOk(r) == ~r.timeout /\ ~r.ei /\ ~r.es

FirstOkAt(k) ==
    /\ k \in 1..Len(replies)
    /\ ReplyOk(replies[k])
    /\ \A j \in 1..(k - 1) : ~ReplyOk(replies[j])

\* C4: with max_attempts >= 1, when the transport first returns ok on
\* attempt k <= max_attempts, the request has made exactly k transport
\* calls, makes none after it, and returns true.
C4_FirstOk ==
    max_attempts >= 1 =>
        \A k \in 1..Len(replies) :
            FirstOkAt(k) => ncalls = k /\ rpc = "returned" /\ ret = "True"

\* C5: when the transport fails on every attempt, the request makes
\* exactly max_attempts transport calls, then ends and returns false; it
\* never makes more than max_attempts calls.  (Stated for the loops that
\* return a value; UdpCommand.send_command returns none.)
C5_AllFail ==
    impl # "UdpCommand" =>
        /\ ncalls <= max_attempts
        /\ (rpc = "returned" /\ \A k \in 1..Len(replies) : ~ReplyOk(replies[k])) =>
               ncalls = max_attempts /\ ret = "False"

\* C6: a GET or SET counts as successful, both as the transport's ok and
\* in the retry loop, if and only if the engine error indication and the
\* PDU error status are both absent.
C6_OkIffNoError ==
    \A k \in 1..Len(replies) :
        ~replies[k].timeout =>
            /\ TransportOk(replies[k]) <=> (~replies[k].ei /\ ~replies[k].es)
            /\ CmdSuccess(impl, replies[k]) <=> (~replies[k].ei /\ ~replies[k].es)

(***************************************************************************)
(* Properties of the serial readers.                                       *)
(***************************************************************************)
AllPositions == [i \in 1..Len(stream) |-> i]

\* what the reader submits when the whole stream arrives in one read
WholeRead == ReadCycle(reader, 1, <<>>, AllPositions).subs

Example7 ==
    <<"o", "n", " ", "1", " ", "1", CR>> \o <<"o", "f", " ", "2", " ", "2", CR>>

\* C7: however the stream is split into reads, the requests submitted
\* are those of the whole stream arriving in one read; the bytes of
\* 'on 1 1\rof 2 2\r' give exactly two submissions, in stream order.
C7_ChunkingIndependent ==
    delivered = Len(stream) =>
        /\ submitted = WholeRead
        /\ stream = Example7 =>
              /\ Len(submitted) = 2
              /\ submitted[1].verb = "on" /\ submitted[1].src = 1
              /\ submitted[2].verb = "of" /\ submitted[2].src = 8

Positions(ps) == {ps[i] : i \in 1..Len(ps)}

\* the \r-terminated segments of the stream, as [from, to]
StreamSegments ==
    {[from |-> a, to |-> b] : a \in 1..Len(stream), b \in 1..Len(stream)} \cap
    {sg \in [from : 1..Len(stream), to : 1..Len(stream)] :
        /\ sg.from <= sg.to
        /\ stream[sg.to] = CR
        /\ \A i \in sg.from..(sg.to - 1) : stream[i] # CR
        /\ sg.from = 1 \/ stream[sg.from - 1] = CR}

SegmentPositions(sg) == [i \in 1..(sg.to - sg.from + 1) |-> sg.from + i - 1]

\* the segment is a command for a configured device
WellFormed(sg) ==
    LET tokens == parse(TextOf(SegmentPositions(sg)))
    IN  /\ tokens.ok
        /\ tokens.cmd \in {"on", "of", "cy"}
        /\ Pad3(tokens.bank) \in DOMAIN devices

\* C8: a \r-terminated segment that fails to parse is gone from the
\* buffer when its read cycle ends and no later text given to the parser
\* contains it; every later segment of the stream that has been read is
\* parsed on its own and, when well-formed, submitted.
C8_FailedSegmentDropped ==
    \A i \in 1..Len(parseLog) :
        parseLog[i].res = "ParseError" =>
            /\ Positions(parseLog[i].ps) \cap Positions(read_buffer) = {}
            /\ \A j \in (i + 1)..Len(parseLog) :
                  Positions(parseLog[i].ps) \cap Positions(parseLog[j].ps) = {}
            /\ \A sg \in StreamSegments :
                  (sg.from > parseLog[i].ps[Len(parseLog[i].ps)] /\ sg.to <= delivered) =>
                      /\ \E j \in 1..Len(parseLog) : parseLog[j].ps = SegmentPositions(sg)
                      /\ WellFormed(sg) =>
                            \E k \in 1..Len(submitted) : submitted[k].src = sg.from

\* C12: a well-formed on/of/cy segment whose device id names no configured
\* device produces no submission: the translation of the segment submits
\* nothing and no submitted request comes from its characters.
C12_UnknownDeviceIgnored ==
    \A i \in 1..Len(parseLog) :
        LET e == parseLog[i]
            tokens == parse(TextOf(e.ps))
        IN  (tokens.ok /\ tokens.cmd \in {"on", "of", "cy"}
                /\ Pad3(tokens.bank) \notin DOMAIN devices) =>
                /\ e.subs = <<>>
                /\ \A k \in 1..Len(submitted) : submitted[k].src \notin Positions(e.ps)

C12_Witness ==
    /\ Len(submitted) >= 1
    /\ \E i \in 1..Len(parseLog) :
          LET tokens == parse(TextOf(parseLog[i].ps))
          IN  /\ tokens.ok /\ tokens.cmd = "on" /\ tokens.bank = 9
              /\ parseLog[i].ps[1] > 1

\* the segment is a quit or an empty command
QuitOrEmpty(sg) ==
    LET tokens == parse(TextOf(SegmentPositions(sg)))
    IN  tokens.ok /\ tokens.cmd \in {"quit", ""}

SubmissionsOf(sg) == {k \in 1..Len(submitted) : submitted[k].src = sg.from}

\* every segment is a command for a configured device, a quit or empty
CleanStream == \A sg \in StreamSegments : WellFormed(sg) \/ QuitOrEmpty(sg)

\* C13: a quit or empty segment produces no submission and is consumed
\* like any other segment: it is gone from the buffer after its read, the
\* segments that follow it (in the same read or a later one) are each
\* parsed and submitted exactly once, and the segments before it are not
\* submitted again.  (Stated for streams whose other segments are commands
\* for configured devices; the buffer handling of serial_reader is C7's.)
C13_QuitEmptyConsumed ==
    (reader # "serial_reader" /\ CleanStream) =>
        \A sg \in StreamSegments :
            (QuitOrEmpty(sg) /\ sg.to <= delivered) =>
                /\ \A k \in 1..Len(submitted) : submitted[k].src \notin sg.from..sg.to
                /\ Positions(read_buffer) \cap (sg.from..sg.to) = {}
                /\ \A s2 \in StreamSegments :
                      (WellFormed(s2) /\ s2.to <= delivered) =>
                          IF s2.from > sg.to
                             THEN /\ Cardinality(SubmissionsOf(s2)) = 1
                                  /\ \E j \in 1..Len(parseLog) :
                                        parseLog[j].ps = SegmentPositions(s2)
                             ELSE Cardinality(SubmissionsOf(s2)) <= 1

\* the segment is a command for a device that is not configured
UnknownDevice(sg) ==
    LET tokens == parse(TextOf(SegmentPositions(sg)))
    IN  /\ tokens.ok
        /\ tokens.cmd \in {"on", "of", "cy"}
        /\ Pad3(tokens.bank) \notin DOMAIN devices

\* the position of the last \r received so far, 0 when there is none
LastTerminator ==
    LET crs == {i \in 1..delivered : stream[i] = CR}
    IN  IF crs = {} THEN 0 ELSE CHOOSE i \in crs : \A j \in crs : j <= i

\* the positions received after the last \r
IncompleteTail == [i \in 1..(delivered - LastTerminator) |-> LastTerminator + i]

\* C23: after every read cycle the read buffer holds exactly the bytes
\* received after the last \r; 'on 1 1' with no terminator produces no
\* submission and leaves exactly those six bytes in the buffer.  (Stated
\* for serial_conn_read and serial_reader on streams that name configured
\* devices only.)
C23_OnlyTailRemains ==
    (reader \in {"serial_conn_read", "serial_reader"} /\ nreads >= 1
        /\ \A sg \in StreamSegments : ~UnknownDevice(sg)) =>
        /\ read_buffer = IncompleteTail
        /\ (delivered = 6 /\ SubSeq(stream, 1, 6) = <<"o", "n", " ", "1", " ", "1">>) =>
              submitted = <<>> /\ read_buffer = <<1, 2, 3, 4, 5, 6>>

\* C24: a segment naming an unconfigured device does not stop the
\* reader: it is gone from the read buffer after the read cycle that
\* framed it, the segments before it are not submitted a second time, and
\* every well-formed segment after it still gives exactly one submission.
\* (Stated for serial_conn_read on streams whose other segments are
\* commands for configured devices.)
C24_UnknownDeviceSkipped ==
    (reader = "serial_conn_read"
        /\ \A sg \in StreamSegments : WellFormed(sg) \/ UnknownDevice(sg)) =>
        \A sg \in StreamSegments :
            (UnknownDevice(sg) /\ sg.to <= delivered) =>
                /\ Positions(read_buffer) \cap (sg.from..sg.to) = {}
                /\ \A s2 \in StreamSegments :
                      (WellFormed(s2) /\ s2.to <= delivered) =>
                          IF s2.from > sg.to
                             THEN Cardinality(SubmissionsOf(s2)) = 1
                             ELSE Cardinality(SubmissionsOf(s2)) <= 1

\* C9: a parsed command whose verb is a power state of its device gives
\* exactly one low-priority SET for that device and outlet (both padded
\* to three digits) with the device's own value for the verb; a cy the
\* device knows is sent as that one SET.  (Stated for the two readers
\* that submit through power_change_enqueue / add_power_change_to_queue.)
C9_OwnValue ==
    reader # "serial_reader" =>
        \A i \in 1..Len(parseLog) :
            LET e == parseLog[i]
                tokens == parse(TextOf(e.ps))
                d == Pad3(tokens.bank)
            IN  (e.res = "ok" /\ tokens.cmd \in {"on", "of", "cy"}
                    /\ tokens.cmd \in DOMAIN devices[d]) =>
                    /\ Len(e.subs) = 1
                    /\ e.subs[1].how = "set"
                    /\ ~e.subs[1].high
                    /\ e.subs[1].dev = d
                    /\ e.subs[1].outlet = Pad3(tokens.port)
                    /\ e.subs[1].value = devices[d][tokens.cmd]

(***************************************************************************)
(* Properties of the parsers.                                              *)
(***************************************************************************)
ParseDone == outcome.exc # "none"

\* the text the parser was given
Presented == IF parser_cls = "sersnmpparsers" THEN Payload(segment) ELSE segment

Yields(cmd, bank, port) ==
    /\ outcome.exc = "" /\ outcome.cmd = cmd
    /\ outcome.bank = bank /\ outcome.port = port
    /\ outcome.pos = Len(Presented)

\* C18: for every verb of on, of, cy and every pair of ids within the
\* accepted range, parsing '<verb> <d> <o>' as framed by its \r yields
\* exactly (verb, d, o) and leaves no input unconsumed; 'quit' yields the
\* quit command and the empty segment the empty command.
C18_WellFormedParses ==
    ParseDone =>
        /\ \A v \in Verbs : \A d, o \in {i \in Ids : i <= 256} :
               segment = CommandSegment(v, d, o) => Yields(v, d, o)
        /\ segment = QuitSegment => Yields("quit", 0, 0)
        /\ segment = EmptySegment => Yields("", 0, 0)

\* the grammar of the command: verb, blanks, digits, blanks, digits
GrammarCommand(pl) ==
    LET p1 == remove_leading_whitespace(pl, 2)
        e1 == NumberEnd(pl, p1)
        p2 == remove_leading_whitespace(pl, e1)
        e2 == NumberEnd(pl, p2)
    IN  /\ Len(pl) >= 2
        /\ \E v \in Verbs : SubSeq(pl, 1, 2) = VerbChars[v]
        /\ p1 > 2 /\ e1 > p1 /\ p2 > e1 /\ e2 > p2 /\ e2 = Len(pl)
        /\ ToInt(Slice(pl, p1, e1)) <= 256
        /\ ToInt(Slice(pl, p2, e2)) <= 256

GrammarAccepts(sg) ==
    /\ Terminated(sg)
    /\ \/ Payload(sg) = <<>>
       \/ Payload(sg) = Payload(QuitSegment)
       \/ GrammarCommand(Payload(sg))

\* some id written in the segment is above the accepted range
IdAboveRange(sg) ==
    \E d \in {i \in Ids : i > 256} : \E k \in 1..Len(sg) :
        /\ k + Len(DigitsOf(d)) - 1 <= Len(sg)
        /\ SubSeq(sg, k, k + Len(DigitsOf(d)) - 1) = DigitsOf(d)

\* C19: every segment that the grammar does not accept makes parse raise
\* ParseError and nothing else: an unknown keyword, a missing verb, two
\* verbs, a negative id, no terminator, and the blanks missing between the
\* verb and the first id or between the two ids.  Stated for the segments
\* whose ids are within the range.
C19_RejectedRaisesParseError ==
    (ParseDone /\ parser_cls = "ser2snmp"
        /\ ~GrammarAccepts(segment) /\ ~IdAboveRange(segment))
    => outcome.exc = "ParseError"

\* C20: search_uint8 accepts an id if and only if it is at most 256:
\* 'on 256 1' parses to (on, 256, 1), and an id above 256 makes parse
\* raise ParseError with the cursor back where the number search started.
C20_Uint8Bound ==
    ParseDone =>
        \A v \in {"on", "of"} : \A d, o \in Ids :
            segment = CommandSegment(v, d, o) =>
                IF d <= 256 /\ o <= 256
                   THEN outcome.exc = "" /\ outcome.bank = d /\ outcome.port = o
                   ELSE outcome.exc = "ParseError" /\ outcome.pos = outcome.from

\* a well-formed command with characters between it and its terminator
TrailingSegments ==
    { <<"o", "n", " ", "1", " ", "1", " ", "x", CR>>,
      <<"o", "n", " ", "1", " ", "1", "x", CR>>,
      <<"o", "n", " ", "1", " ", "1", " ", CR>>,
      <<"q", "u", "i", "t", " ", "1", CR>> }

\* C34: a segment with any character after the grammar's match is a parse
\* error: 'on 1 1 x', 'quit 1' and 'on 1 1 ' with a trailing blank, each in
\* front of the terminator, make parse raise ParseError.
C34_TrailingCharactersRejected ==
    (ParseDone /\ segment \in TrailingSegments) => outcome.exc = "ParseError"

\* the versions configured under the device's snmp section
Configured == IF snmp_conf.has_snmp THEN snmp_conf.versions ELSE {}

\* C36: a device configuration is accepted only when exactly one of v1, v2
\* and v3 is present under its snmp section: with none the factory raises
\* an error, and with two or more the configuration is rejected instead of
\* one variant being chosen.
C36_ExactlyOneVersion ==
    snmp_cls # "" => (snmp_cls # "TypeError" <=> Cardinality(Configured) = 1)

\* C39: a request is reported as passed only if the transport outcome of
\* its GET or SET was ok: whenever the transport returns ok = false, the
\* power-change or healthcheck action reports failed.
C39_PassedOnlyIfOk ==
    \A k \in 1..Len(sent) : sent[k].reported = "passed" <=> sent[k].ok

\* C35: a device id or an outlet id of 256 is rejected: parsing
\* 'on 256 1' and parsing 'on 1 256', each with its terminator, raises
\* ParseError.
C35_Id256Rejected ==
    (ParseDone /\ segment \in {CommandSegment("on", 256, 1), CommandSegment("on", 1, 256)})
    => outcome.exc = "ParseError"

(***************************************************************************)
(* Properties of the SNMP classes.                                         *)
(***************************************************************************)
\* C21: for SNMP v1/v2c every GET is sent with the read (public)
\* community and every SET with the write (private) community, and the
\* message model is 0 for a device configured as v1 and 1 for one
\* configured as v2.
C21_CommunityAndModel ==
    snmp_cls \in {"TransportSnmpV1V2", "SnmpDeviceV1V2"} =>
        \A k \in 1..Len(sent) :
            /\ sent[k].auth.kind = "community"
            /\ sent[k].op = "get" => sent[k].auth.name = snmp_conf.public_community
            /\ sent[k].op = "set" => sent[k].auth.name = snmp_conf.private_community
            /\ sent[k].auth.mpModel = IF snmp_conf.ver = "v1" THEN 0 ELSE 1

\* C22: the v3 credentials handed to the SNMP engine are masked by
\* security_level: under noAuthNoPriv the auth protocol, auth key, priv
\* protocol and priv key are all null; under authNoPriv the two priv
\* fields are null and the auth fields are kept; under authPriv all four
\* are kept.
AuthKept(a) ==
    /\ a.authProtocol = auth_protocol_of(snmp_conf.auth_protocol)
    /\ a.authKey = snmp_conf.auth_passphrase

PrivKept(a) ==
    /\ a.privProtocol = priv_protocol_of(snmp_conf.priv_protocol)
    /\ a.privKey = snmp_conf.priv_passphrase

AuthNull(a) == a.authProtocol = "None" /\ a.authKey = "None"

PrivNull(a) == a.privProtocol = "None" /\ a.privKey = "None"

C22_MaskedBySecurityLevel ==
    snmp_cls = "TransportSnmpV3" =>
        \A k \in 1..Len(sent) :
            LET a == sent[k].auth
            IN  /\ a.kind = "usm"
                /\ snmp_conf.security_level = "noAuthNoPriv" => AuthNull(a) /\ PrivNull(a)
                /\ snmp_conf.security_level = "authNoPriv" => AuthKept(a) /\ PrivNull(a)
                /\ snmp_conf.security_level = "authPriv" => AuthKept(a) /\ PrivKept(a)

\* a GET and a SET were sent under authNoPriv
C22_Witness ==
    /\ snmp_cls = "TransportSnmpV3"
    /\ snmp_conf.security_level = "authNoPriv"
    /\ \E j, k \in 1..Len(sent) : sent[j].op = "get" /\ sent[k].op = "set"

====
